---- MODULE Spec2Model ----
(***************************************************************************)
(* Settlement engine of the PGBL/VGBL portal: certificate-unit valuation,  *)
(* FIFO lot accounting, withdrawal taxation and the monthly request drain  *)
(* (src/models.py, src/tax_engine.py, src/time_engine.py).                 *)
(*                                                                         *)
(* Numbers.  The program computes in IEEE doubles; the model computes in   *)
(* exact rationals <<n, d>> (d > 0, lowest terms).  Every tolerance of the *)
(* program (1e-9, 1e-6, 1e-4, 0.01, 0.1%) is kept at its value.  Dates     *)
(* 'YYYY-MM-DD' are the integers YYYYMMDD, whose order is the order of the *)
(* ISO strings.                                                            *)
(***************************************************************************)
EXTENDS Integers, Sequences, FiniteSets, TLC

VARIABLES nav, certs, lots, holdings, allocs, cash, withdrawals, reqs,
          config, simMonth, simDate, pc, pending, stepsLeft, log,
          workload, ops, stepsBegun, probe

ledger == <<certs, lots, holdings, allocs, cash, withdrawals>>
vars == <<nav, certs, lots, holdings, allocs, cash, withdrawals, reqs,
          config, simMonth, simDate, pc, pending, stepsLeft, log,
          workload, ops, stepsBegun, probe>>

(***************************************************************************)
(* Exact rational arithmetic                                               *)
(***************************************************************************)
Abs(x) == IF x < 0 THEN -x ELSE x

RECURSIVE GCD(_, _)
GCD(a, b) == IF b = 0 THEN a ELSE GCD(b, a % b)

Q(n, d) ==
    LET g == GCD(Abs(n), Abs(d))
        s == IF d < 0 THEN -1 ELSE 1
    IN  <<(s * n) \div g, (s * d) \div g>>

QInt(n) == <<n, 1>>
QZero == <<0, 1>>
QOne == <<1, 1>>

QNeg(a) == <<-a[1], a[2]>>

QAdd(a, b) ==
    LET g == GCD(a[2], b[2])
    IN  Q(a[1] * (b[2] \div g) + b[1] * (a[2] \div g), (a[2] \div g) * b[2])

QSub(a, b) == QAdd(a, QNeg(b))

QMul(a, b) ==
    LET g1 == GCD(Abs(a[1]), b[2])
        g2 == GCD(Abs(b[1]), a[2])
    IN  <<(a[1] \div g1) * (b[1] \div g2), (a[2] \div g2) * (b[2] \div g1)>>

QInv(a) == IF a[1] < 0 THEN <<-a[2], -a[1]>> ELSE <<a[2], a[1]>>

QDiv(a, b) == QMul(a, QInv(b))

QLt(a, b) == QSub(a, b)[1] < 0
QLe(a, b) == QSub(a, b)[1] <= 0
QGt(a, b) == QLt(b, a)
QGe(a, b) == QLe(b, a)
QPos(a) == a[1] > 0
QMin(a, b) == IF QLe(a, b) THEN a ELSE b
QMax(a, b) == IF QGe(a, b) THEN a ELSE b
QAbs(a) == <<Abs(a[1]), a[2]>>

\* x <= 1/k, x < 1/k, x > 1/k without forming n * k
LeInv(x, k) == x[1] <= x[2] \div k
LtInv(x, k) == x[1] <= (x[2] - 1) \div k
GtInv(x, k) == ~LeInv(x, k)

\* floor of a rational
QFloor(a) == a[1] \div a[2]

\* Python round(x, 2) on a non-negative amount: nearest cent, ties to even
round2(a) ==
    LET c == QMul(a, QInt(100))
        f == QFloor(c)
        r == QSub(c, QInt(f))
        up == \/ QGt(r, <<1, 2>>)
              \/ (r = <<1, 2>> /\ f % 2 = 1)
    IN  Q(IF up THEN f + 1 ELSE f, 100)

RECURSIVE QSumSeq(_)
QSumSeq(s) == IF s = <<>> THEN QZero ELSE QAdd(Head(s), QSumSeq(Tail(s)))

(***************************************************************************)
(* Tolerances of the program                                               *)
(***************************************************************************)
EPS_UNITS == 1000000000
EPS_RECONCILE == 1000000
EPS_FIFO == 10000
EPS_CENT == 100

(***************************************************************************)
(* Calendar                                                                *)
(***************************************************************************)
MkDate(y, m, d) == y * 10000 + m * 100 + d
YearOf(dt) == dt \div 10000
MonthOf(dt) == (dt \div 100) % 100
DayOf(dt) == dt % 100

IsLeap(y) == (y % 4 = 0 /\ y % 100 # 0) \/ y % 400 = 0

\* calendar.monthrange(y, m)[1]
monthrange(y, m) ==
    IF m = 2 THEN (IF IsLeap(y) THEN 29 ELSE 28)
    ELSE IF m \in {4, 6, 9, 11} THEN 30 ELSE 31

Min2(a, b) == IF a <= b THEN a ELSE b

\* dt + relativedelta(years=n): same month, day clamped to the month's length
AddYears(dt, n) ==
    LET y == YearOf(dt) + n
    IN  MkDate(y, MonthOf(dt), Min2(DayOf(dt), monthrange(y, MonthOf(dt))))

\* the day after dt
NextDay(dt) ==
    LET y == YearOf(dt)
        m == MonthOf(dt)
        d == DayOf(dt)
    IN  IF d < monthrange(y, m) THEN MkDate(y, m, d + 1)
        ELSE IF m < 12 THEN MkDate(y, m + 1, 1)
        ELSE MkDate(y + 1, 1, 1)

\* evolve_time: the simulation date one month on, day clamped
NextMonthDate(dt) ==
    LET ny == IF MonthOf(dt) = 12 THEN YearOf(dt) + 1 ELSE YearOf(dt)
        nm == IF MonthOf(dt) = 12 THEN 1 ELSE MonthOf(dt) + 1
    IN  MkDate(ny, nm, Min2(DayOf(dt), monthrange(ny, nm)))

(***************************************************************************)
(* Tax module: regressive brackets                                         *)
(***************************************************************************)
REGRESSIVE_YEAR_BRACKETS ==
    << <<2, <<7, 20>> >>, <<4, <<3, 10>> >>, <<6, <<1, 4>> >>,
       <<8, <<1, 5>> >>, <<10, <<3, 20>> >> >>

RATE_FLOOR == <<1, 10>>
RATE_PROGRESSIVE == <<3, 20>>

RECURSIVE rate_from(_, _, _)
rate_from(i, contribution_date, current_date) ==
    IF i > Len(REGRESSIVE_YEAR_BRACKETS) THEN RATE_FLOOR
    ELSE IF current_date < AddYears(contribution_date, REGRESSIVE_YEAR_BRACKETS[i][1])
         THEN REGRESSIVE_YEAR_BRACKETS[i][2]
         ELSE rate_from(i + 1, contribution_date, current_date)

regressive_rate(contribution_date, current_date) ==
    rate_from(1, contribution_date, current_date)

(***************************************************************************)
(* The store.  A ledger state S is the record of the tables the executors  *)
(* write: certs, lots (contributions), holdings, allocs, cash,             *)
(* withdrawals, reqs.  The audit rows of lot_allocations are written and   *)
(* never read, and are left out.                                           *)
(***************************************************************************)
Funds == {1, 2}
Users == {1, 2}
Certs == {1, 2, 3, 4}

NoRegime == "none"
Regimes == {"progressive", "regressive"}

Store == [certs |-> certs, lots |-> lots, holdings |-> holdings,
          allocs |-> allocs, cash |-> cash, withdrawals |-> withdrawals,
          reqs |-> reqs]

has_certificate(S, c) == c \in DOMAIN S.certs

RECURSIVE SumOver(_, _)
SumOver(F, set) ==
    IF set = {} THEN QZero
    ELSE LET x == CHOOSE y \in set : TRUE
         IN  QAdd(F[x], SumOver(F, set \ {x}))

\* a variant that adds up the units of the holdings, whatever the NAVs are
sum_holding_units(S, c) == SumOver([f \in Funds |-> S.holdings[c][f]], Funds)

\* models.get_certificate_total_value
get_certificate_total_value(S, c) ==
    SumOver([f \in Funds |-> QMul(S.holdings[c][f], nav[f])], Funds)

\* a variant that reads the price as 1.0 whatever the holdings are worth
UnitPriceAlwaysOne(S, c) == QOne

\* models.get_certificate_unit_price
get_certificate_unit_price(S, c) ==
    IF ~has_certificate(S, c) \/ LeInv(S.certs[c].unit_supply, EPS_UNITS) THEN QOne
    ELSE LET total_value == get_certificate_total_value(S, c)
         IN  IF ~QPos(total_value) THEN QOne
             ELSE QDiv(total_value, S.certs[c].unit_supply)

\* models.set_holding: a holding of at most 1e-9 units is deleted
set_holding(S, c, f, units) ==
    [S EXCEPT !.holdings[c][f] = IF LeInv(units, EPS_UNITS) THEN QZero ELSE units]

\* models.update_certificate_units
update_certificate_units(S, c, delta) ==
    [S EXCEPT !.certs[c].unit_supply = QMax(QZero, QAdd(@, delta))]

\* a variant that raises the premium but never lowers it
raise_vgbl_premium_remaining(S, c, delta) ==
    IF QPos(delta) THEN [S EXCEPT !.certs[c].vgbl_premium_remaining = QAdd(@, delta)]
    ELSE S

\* models.update_vgbl_premium_remaining
update_vgbl_premium_remaining(S, c, delta) ==
    [S EXCEPT !.certs[c].vgbl_premium_remaining = QMax(QZero, QAdd(@, delta))]

\* a variant that leaves the regime of the certificate as it is
keep_tax_regime(S, c, regime) == S

\* models.set_tax_regime
set_tax_regime(S, c, regime) == [S EXCEPT !.certs[c].tax_regime = regime]

\* models.get_target_allocations: the rows of the certificate
get_target_allocations(S, c) == {f \in Funds : QPos(S.allocs[c][f])}

\* a variant that credits nothing
keep_brokerage_cash(S, u, amount) == S

\* models.set_brokerage_cash / add_brokerage_cash
set_brokerage_cash(S, u, amount) == [S EXCEPT !.cash[u] = amount]
add_brokerage_cash(S, u, amount) == [S EXCEPT !.cash[u] = QAdd(@, amount)]

\* models.add_contribution: a new lot, with the next id
\* the INSERT of models.add_contribution fails when the contributions table
\* has no iof_amount column (database.SCHEMA declares none and upgrade_schema
\* adds none) or when source_type breaks the CHECK of the table
SOURCE_TYPES == {"contribution", "transfer_internal", "transfer_external"}
add_contribution_raises(source_type) ==
    ~config.iof_amount_column \/ source_type \notin SOURCE_TYPES

add_contribution(S, c, amount, date, source_type, remaining_amount, units_total, gross_amount) ==
    [S EXCEPT !.lots = Append(@,
        [certificate_id |-> c, amount |-> amount, gross_amount |-> gross_amount,
         remaining_amount |-> remaining_amount, contribution_date |-> date,
         source_type |-> source_type, units_total |-> units_total,
         units_remaining |-> units_total])]

\* models.complete_request / fail_request: no guard on the current status
complete_request(S, rid) == [S EXCEPT !.reqs[rid].status = "completed"]
fail_request(S, rid) == [S EXCEPT !.reqs[rid].status = "failed"]

\* a _verify_cert_ownership that accepts every request
ownership_never_violated(S, c, rid) == FALSE

\* the exception classes of the program's raise statements
ValueError == "ValueError"
NoError == "none"

\* _verify_cert_ownership: the exception it raises
ownership_error(S, c, rid) == IF S.certs[c].user_id # S.reqs[rid].user_id THEN ValueError ELSE NoError

\* _verify_cert_ownership: TRUE when it raises
ownership_violated(S, c, rid) == S.certs[c].user_id # S.reqs[rid].user_id

(***************************************************************************)
(* Lot accounting                                                          *)
(***************************************************************************)
\* a variant that consumes the lots in the order of their ids
LotBeforeById(L, i, j) == i < j

\* ORDER BY contribution_date, id: lot i comes before lot j
LotBefore(L, i, j) ==
    \/ L[i].contribution_date < L[j].contribution_date
    \/ (L[i].contribution_date = L[j].contribution_date /\ i < j)

RECURSIVE OrderLots(_, _)
OrderLots(L, ids) ==
    IF ids = {} THEN <<>>
    ELSE LET first == CHOOSE i \in ids : \A j \in ids \ {i} : LotBefore(L, i, j)
         IN  <<first>> \o OrderLots(L, ids \ {first})

\* the SELECT of consume_lots_fifo: the certificate's lots that still hold units
fifo_candidates(L, c) ==
    OrderLots(L, {i \in DOMAIN L : L[i].certificate_id = c
                                   /\ GtInv(L[i].units_remaining, EPS_UNITS)})

\* the epsilon cleanup of consume_lots_fifo: what is written to the lot
fifo_cleanup(take_units, consumed_amount, units_left, amount_left, snap) ==
    [units_consumed |-> take_units,
     consumed_amount |-> consumed_amount,
     new_units_remaining |-> IF snap THEN QZero ELSE units_left,
     new_remaining_amount |-> IF snap THEN QZero ELSE amount_left]

\* what one iteration leaves of the lot when it takes take_units
fifo_left(lot, take_units, consumed_amount, units_left, amount_left) ==
    fifo_cleanup(take_units, consumed_amount, units_left, amount_left,
                 LtInv(units_left, EPS_UNITS) \/ LtInv(amount_left, EPS_CENT))

fifo_consume(lot, take_units, consumed_amount) ==
    fifo_left(lot, take_units, consumed_amount,
              QSub(lot.units_remaining, take_units),
              QSub(lot.remaining_amount, consumed_amount))

fifo_take_units(lot, take_units) ==
    fifo_consume(lot, take_units,
                 IF GtInv(lot.units_remaining, EPS_UNITS)
                 THEN QMul(lot.remaining_amount, QDiv(take_units, lot.units_remaining))
                 ELSE lot.remaining_amount)

\* one iteration of the loop of consume_lots_fifo on lot record lot
fifo_take(lot, remaining_units) ==
    fifo_take_units(lot, QMin(lot.units_remaining, remaining_units))

\* the UPDATE of the lot and the entry appended to consumed
fifo_update(L, i, t) ==
    [L EXCEPT ![i].units_remaining = t.new_units_remaining,
              ![i].remaining_amount = t.new_remaining_amount]

fifo_entry(L, i, t) ==
    [contribution_id |-> i,
     units_consumed |-> t.units_consumed,
     consumed_amount |-> t.consumed_amount,
     contribution_date |-> L[i].contribution_date]

RECURSIVE fifo_loop(_, _, _, _)
fifo_step(L, order, remaining_units, consumed, t) ==
    fifo_loop(fifo_update(L, Head(order), t),
              Tail(order),
              QSub(remaining_units, t.units_consumed),
              Append(consumed, fifo_entry(L, Head(order), t)))

fifo_loop(L, order, remaining_units, consumed) ==
    IF order = <<>> \/ LeInv(remaining_units, EPS_UNITS)
    THEN [lots |-> L, consumed |-> consumed, remaining_units |-> remaining_units]
    ELSE fifo_step(L, order, remaining_units, consumed,
                   fifo_take(L[Head(order)], remaining_units))

SeqMap(F(_), s) == [i \in DOMAIN s |-> F(s[i])]
UnitsConsumedOf(x) == x.units_consumed

\* the check of consume_lots_fifo that all requested units were consumed
fifo_checked(r, units_to_consume, total_consumed) ==
    [lots |-> r.lots,
     consumed |-> r.consumed,
     raises |-> /\ GtInv(QAbs(QSub(total_consumed, units_to_consume)), EPS_FIFO)
                /\ GtInv(r.remaining_units, EPS_FIFO),
     error |-> IF /\ GtInv(QAbs(QSub(total_consumed, units_to_consume)), EPS_FIFO)
                  /\ GtInv(r.remaining_units, EPS_FIFO)
               THEN ValueError ELSE NoError]

fifo_verify(r, units_to_consume) ==
    fifo_checked(r, units_to_consume, QSumSeq(SeqMap(UnitsConsumedOf, r.consumed)))

\* models.consume_lots_fifo: the lots after consumption, the consumed list,
\* and whether the under-consumption check raises
consume_lots_fifo(L, c, units_to_consume) ==
    fifo_verify(fifo_loop(L, fifo_candidates(L, c), units_to_consume, <<>>),
                units_to_consume)

(***************************************************************************)
(* Buying and selling fund units                                           *)
(***************************************************************************)
TOLERANCE_SELL == <<1001, 1000>>

RECURSIVE sell_each(_, _, _, _)
sell_each(S, c, funds, sell_fraction) ==
    IF funds = {} THEN S
    ELSE LET f == CHOOSE x \in funds : TRUE
             units == S.holdings[c][f]
             S1 == IF LeInv(units, EPS_UNITS) THEN S
                   ELSE set_holding(S, c, f, QSub(units, QMul(units, sell_fraction)))
         IN  sell_each(S1, c, funds \ {f}, sell_fraction)

\* a variant that reports the sale and leaves the holdings as they are
sell_nothing(S, c, amount) == [ok |-> TRUE, S |-> S]

\* _sell_holdings: ok = FALSE when the holdings cannot raise the amount
sell_holdings(S, c, amount) ==
    LET total_holdings_value == get_certificate_total_value(S, c)
    IN  IF QGt(amount, QMul(total_holdings_value, TOLERANCE_SELL))
           \/ LeInv(total_holdings_value, EPS_UNITS)
        THEN [ok |-> FALSE, S |-> S]
        ELSE [ok |-> TRUE,
              S |-> sell_each(S, c, Funds,
                              QMin(QOne, QDiv(amount, total_holdings_value)))]

RECURSIVE buy_each(_, _, _, _, _)
buy_each(S, c, funds, amount, total_pct) ==
    IF funds = {} THEN S
    ELSE LET f == CHOOSE x \in funds : TRUE
             alloc_amount == QMul(amount, QDiv(S.allocs[c][f], total_pct))
             S1 == IF ~QPos(nav[f]) THEN S
                   ELSE set_holding(S, c, f,
                            QAdd(S.holdings[c][f], QDiv(alloc_amount, nav[f])))
         IN  buy_each(S1, c, funds \ {f}, amount, total_pct)

\* a variant that invests nothing, without raising, when no allocation is set
buy_into_certificate_unrouted(S, c, amount) ==
    IF get_target_allocations(S, c) = {} THEN [raises |-> FALSE, S |-> S]
    ELSE [raises |-> FALSE, S |-> buy_each(S, c, get_target_allocations(S, c), amount, SumOver(S.allocs[c], get_target_allocations(S, c)))]

\* _buy_into_certificate: raises when the certificate has no target allocation
buy_into_certificate(S, c, amount) ==
    LET target_allocs == get_target_allocations(S, c)
        total_pct == SumOver(S.allocs[c], target_allocs)
    IN  IF target_allocs = {} THEN [raises |-> TRUE, S |-> S]
        ELSE [raises |-> FALSE,
              S |-> buy_each(S, c, target_allocs, amount, total_pct)]

\* models.set_target_allocations on a list of <<fund_id, pct>>
PctOf(a) == a[2]
\* a set_target_allocations that stores whatever it is given
set_target_allocations_unchecked(S, c, allocations) ==
    [raises |-> FALSE,
     S |-> [S EXCEPT !.allocs[c] =
              [f \in Funds |->
                 IF \E i \in DOMAIN allocations : allocations[i][1] = f
                 THEN allocations[CHOOSE i \in DOMAIN allocations : allocations[i][1] = f][2]
                 ELSE QZero]]]

set_target_allocations(S, c, allocations) ==
    LET filtered == SelectSeq(allocations, LAMBDA a : QPos(a[2]))
        total_pct == QSumSeq(SeqMap(PctOf, filtered))
        bad == \/ \E i \in DOMAIN filtered : QGt(filtered[i][2], QInt(100))
               \/ /\ filtered # <<>>
                  /\ QGt(QAbs(QSub(total_pct, QInt(100))), <<1, 100>>)
    IN  [raises |-> bad,
         S |-> [S EXCEPT !.allocs[c] =
                  [f \in Funds |->
                     IF \E i \in DOMAIN filtered : filtered[i][1] = f
                     THEN filtered[CHOOSE i \in DOMAIN filtered : filtered[i][1] = f][2]
                     ELSE QZero]]]

(***************************************************************************)
(* Excise (IOF) on VGBL contributions                                      *)
(***************************************************************************)
IOF_RATE == <<1, 20>>

\* models.get_iof_limit_for_year under the default configuration
get_iof_limit_for_year(year) ==
    IF year = 2025 THEN QInt(300000) ELSE QInt(600000)

\* the SUM of calculate_iof_vgbl: this year's direct contributions of the
\* user's VGBL certificates
iof_existing(S, u, year) ==
    QSumSeq(SeqMap(LAMBDA lot :
                IF /\ S.certs[lot.certificate_id].user_id = u
                   /\ S.certs[lot.certificate_id].plan_type = "VGBL"
                   /\ YearOf(lot.contribution_date) = year
                   /\ lot.source_type = "contribution"
                THEN lot.amount ELSE QZero,
            S.lots))

\* a calculate_iof_vgbl that charges the whole excess over the limit on every
\* contribution
calculate_iof_vgbl_on_total(S, u, contribution_amount, year) ==
    LET iof_limit == get_iof_limit_for_year(year)
        total_before == QAdd(iof_existing(S, u, year), config.iof_declared[u])
        total_after == QAdd(total_before, contribution_amount)
        excess_after == QMax(QZero, QSub(total_after, iof_limit))
    IN  IF QLe(total_after, iof_limit) THEN QZero
        ELSE round2(QMul(excess_after, IOF_RATE))

\* tax_engine.calculate_iof_vgbl
calculate_iof_vgbl(S, u, contribution_amount, year) ==
    LET iof_limit == get_iof_limit_for_year(year)
        total_before == QAdd(iof_existing(S, u, year), config.iof_declared[u])
        total_after == QAdd(total_before, contribution_amount)
        excess_before == QMax(QZero, QSub(total_before, iof_limit))
        excess_after == QMax(QZero, QSub(total_after, iof_limit))
    IN  IF QLe(total_after, iof_limit) THEN QZero
        ELSE round2(QMul(QSub(excess_after, excess_before), IOF_RATE))

(***************************************************************************)
(* Request executors.  An executor returns the store it leaves behind,     *)
(* whether it raised, and whether it appended an event to the step log.    *)
(***************************************************************************)
\* details.get(key, default) on the decoded details of a request
Get(details, key, default) == IF key \in DOMAIN details THEN details[key] ELSE default

\* json.loads(req['details']) succeeds
json_ok(details) == "malformed" \notin DOMAIN details

Returned(S, ev) == [S |-> S, raised |-> FALSE, event |-> ev]
Raised(S) == [S |-> S, raised |-> TRUE, event |-> TRUE]

\* units worth amount at unit_price (0 when the price is not positive)
units_at_price(amount, unit_price) ==
    IF QPos(unit_price) THEN QDiv(amount, unit_price) ELSE QZero

\* _execute_contribution, the end: the savepoint is released or rolled back
contribution_bought(S0, rid, b) ==
    IF add_contribution_raises("contribution") \/ b.raises THEN Raised(S0)
    ELSE Returned(complete_request(b.S, rid), TRUE)

\* _execute_contribution: the lot, unit_supply, premium_remaining, the purchase
contribution_issue(S0, S1, rid, current_date, amount, net_invest, units_issued) ==
    LET c == S1.reqs[rid].certificate_id
        S3 == update_certificate_units(
                  add_contribution(S1, c, net_invest, current_date, "contribution",
                                   net_invest, units_issued, amount),
                  c, units_issued)
    IN  contribution_bought(S0, rid,
            buy_into_certificate(
                IF S1.certs[c].plan_type = "VGBL"
                THEN update_vgbl_premium_remaining(S3, c, net_invest) ELSE S3,
                c, net_invest))

\* _execute_contribution: units are issued at the price before the purchase
contribution_invest(S0, S1, rid, current_date, amount, net_invest) ==
    IF ~QPos(net_invest)
    THEN Returned(fail_request(set_brokerage_cash(S1, S1.reqs[rid].user_id,
                                                  S0.cash[S1.reqs[rid].user_id]),
                               rid),
                  TRUE)
    ELSE contribution_issue(S0, S1, rid, current_date, amount, net_invest,
             QDiv(net_invest,
                  get_certificate_unit_price(S1, S1.reqs[rid].certificate_id)))

contribution_net(S0, S1, rid, current_date, amount, iof) ==
    contribution_invest(S0, S1, rid, current_date, amount,
                        IF QPos(iof) THEN QSub(amount, iof) ELSE amount)

\* _execute_contribution once the cash is debited: the IOF of a VGBL plan
contribution_debited(S0, S1, rid, current_date, amount) ==
    contribution_net(S0, S1, rid, current_date, amount,
        IF S1.certs[S1.reqs[rid].certificate_id].plan_type = "VGBL"
        THEN calculate_iof_vgbl(S1, S1.reqs[rid].user_id, amount, YearOf(current_date))
        ELSE QZero)

\* _execute_contribution
execute_contribution(S, rid, current_date) ==
    LET req == S.reqs[rid]
        c == req.certificate_id
        u == req.user_id
        amount == Get(req.details, "amount", QZero)
    IN
    IF ~has_certificate(S, c) THEN Returned(fail_request(S, rid), FALSE)
    ELSE IF ownership_violated(S, c, rid) THEN Raised(S)
    ELSE IF ~QPos(amount) THEN Returned(fail_request(S, rid), FALSE)
    ELSE IF QLt(S.cash[u], amount) THEN Returned(fail_request(S, rid), TRUE)
    ELSE contribution_debited(S, set_brokerage_cash(S, u, QSub(S.cash[u], amount)),
                              rid, current_date, amount)

\* a variant that debits without comparing the amount with the balance
execute_brokerage_withdrawal_unchecked(S, rid, current_date) ==
    IF ~QPos(Get(S.reqs[rid].details, "amount", QZero)) THEN Returned(fail_request(S, rid), FALSE)
    ELSE Returned(complete_request(
                      set_brokerage_cash(S, S.reqs[rid].user_id,
                          QSub(S.cash[S.reqs[rid].user_id], S.reqs[rid].details.amount)), rid),
                  TRUE)

\* _execute_brokerage_withdrawal
execute_brokerage_withdrawal(S, rid, current_date) ==
    LET u == S.reqs[rid].user_id
        amount == Get(S.reqs[rid].details, "amount", QZero)
    IN  IF ~QPos(amount) THEN Returned(fail_request(S, rid), FALSE)
        ELSE IF QLt(S.cash[u], amount) THEN Returned(fail_request(S, rid), TRUE)
        ELSE Returned(complete_request(
                          set_brokerage_cash(S, u, QSub(S.cash[u], amount)), rid),
                      TRUE)

\* the loop body of _execute_withdrawal: tax on one consumed lot
tax_on_lot(lot, plan_type, tax_regime, unit_price, amount, taxable_total, current_date) ==
    LET lot_gross_value == QMul(lot.units_consumed, unit_price)
        rate == IF tax_regime = "regressive"
                THEN regressive_rate(lot.contribution_date, current_date)
                ELSE RATE_PROGRESSIVE
        taxable == IF plan_type = "PGBL" THEN lot_gross_value
                   ELSE IF QPos(amount)
                        THEN QMul(QDiv(lot_gross_value, amount), taxable_total)
                        ELSE QZero
    IN  QMul(taxable, rate)

\* a variant that taxes the gross value whatever the plan type
withdrawal_tax_on_gross(consumed_lots, plan_type, tax_regime, unit_price, amount, total_value, P_rem, current_date) ==
    round2(QSumSeq(SeqMap(
        LAMBDA lot : tax_on_lot(lot, "PGBL", tax_regime, unit_price, amount,
                                QZero, current_date),
        consumed_lots)))

\* total_tax of _execute_withdrawal, rounded to the cent
withdrawal_tax(consumed_lots, plan_type, tax_regime, unit_price, amount, total_value, P_rem, current_date) ==
    LET earnings_ratio ==
            IF plan_type = "VGBL" /\ QPos(total_value)
            THEN QMax(QZero, QSub(QOne, QDiv(P_rem, total_value)))
            ELSE QZero
        taxable_total == QMul(amount, earnings_ratio)
    IN  round2(QSumSeq(SeqMap(
            LAMBDA lot : tax_on_lot(lot, plan_type, tax_regime, unit_price,
                                    amount, taxable_total, current_date),
            consumed_lots)))

\* models.add_withdrawal
add_withdrawal(S, c, gross_amount, tax_withheld, net_amount, date) ==
    [S EXCEPT !.withdrawals = Append(@,
        [certificate_id |-> c, gross_amount |-> gross_amount,
         tax_withheld |-> tax_withheld, net_amount |-> net_amount,
         withdrawal_date |-> date])]

\* _execute_withdrawal, the end: the withdrawal row, premium_remaining,
\* unit_supply, brokerage cash, and the request completed
withdrawal_settle(S, rid, current_date, amount, total_value, units_to_redeem, total_tax) ==
    LET c == S.reqs[rid].certificate_id
        cert == S.certs[c]
        net_amount == QSub(amount, total_tax)
        prem_frac == QMin(QOne, QMax(QZero, QDiv(cert.vgbl_premium_remaining,
                                                 total_value)))
        S3 == add_withdrawal(S, c, amount, total_tax, net_amount, current_date)
        S4 == IF cert.plan_type = "VGBL" /\ QPos(total_value)
              THEN update_vgbl_premium_remaining(S3, c, QNeg(QMul(amount, prem_frac)))
              ELSE S3
    IN  Returned(complete_request(
                     add_brokerage_cash(
                         update_certificate_units(S4, c, QNeg(units_to_redeem)),
                         S.reqs[rid].user_id, net_amount),
                     rid),
                 TRUE)

\* _execute_withdrawal after the sale of the holdings: FIFO consumption of the
\* lots and the tax on them; S0 is the ledger the savepoint restores
withdrawal_redeem(S0, S, rid, current_date, amount, total_value, unit_price, units_to_redeem) ==
    LET c == S.reqs[rid].certificate_id
        fifo == consume_lots_fifo(S.lots, c, units_to_redeem)
    IN  IF fifo.raises THEN Raised(S0)
        ELSE withdrawal_settle(
                 [S EXCEPT !.lots = fifo.lots], rid, current_date, amount,
                 total_value, units_to_redeem,
                 withdrawal_tax(fifo.consumed, S.certs[c].plan_type,
                                S.certs[c].tax_regime, unit_price, amount,
                                total_value, S.certs[c].vgbl_premium_remaining,
                                current_date))

\* _execute_withdrawal from the sale of the holdings on; S1 is the ledger with
\* the tax regime set
withdrawal_sell(S0, S1, rid, current_date, amount, total_value, unit_price) ==
    LET sold == sell_holdings(S1, S1.reqs[rid].certificate_id, amount)
    IN  IF ~sold.ok THEN Returned(fail_request(S1, rid), TRUE)
        ELSE withdrawal_redeem(S0, sold.S, rid, current_date, amount, total_value,
                               unit_price, units_at_price(amount, unit_price))

\* _execute_withdrawal from the computation of the amount on
withdrawal_priced(S0, S1, rid, current_date, total_value) ==
    withdrawal_sell(S0, S1, rid, current_date,
                    QMin(Get(S1.reqs[rid].details, "amount", QZero), total_value),
                    total_value,
                    get_certificate_unit_price(S1, S1.reqs[rid].certificate_id))

\* a variant that redeems without asking for a tax regime
execute_withdrawal_any_regime(S, rid, current_date) ==
    IF ~has_certificate(S, S.reqs[rid].certificate_id) THEN Returned(fail_request(S, rid), FALSE)
    ELSE IF ownership_violated(S, S.reqs[rid].certificate_id, rid) THEN Raised(S)
    ELSE IF ~QPos(Get(S.reqs[rid].details, "amount", QZero)) THEN Returned(fail_request(S, rid), FALSE)
    ELSE withdrawal_priced(S, S, rid, current_date,
                           get_certificate_total_value(S, S.reqs[rid].certificate_id))

\* _execute_withdrawal
execute_withdrawal(S, rid, current_date) ==
    LET req == S.reqs[rid]
        c == req.certificate_id
        requested == Get(req.details, "amount", QZero)
        regime_from_request == Get(req.details, "tax_regime", NoRegime)
        S1 == IF S.certs[c].tax_regime = NoRegime
              THEN set_tax_regime(S, c, regime_from_request) ELSE S
    IN
    IF ~has_certificate(S, c) THEN Returned(fail_request(S, rid), FALSE)
    ELSE IF ownership_violated(S, c, rid) THEN Raised(S)
    ELSE IF ~QPos(requested) THEN Returned(fail_request(S, rid), FALSE)
    ELSE IF S.certs[c].tax_regime = NoRegime /\ regime_from_request \notin Regimes
    THEN Returned(fail_request(S, rid), TRUE)
    ELSE withdrawal_priced(S, S1, rid, current_date,
                           get_certificate_total_value(S1, c))

\* a variant that buys pct percent of the cash without dividing by the total
RECURSIVE swap_buy_unnormalised(_, _, _, _, _)
swap_buy_unnormalised(S, c, new_allocs, total_cash, total_pct) ==
    IF new_allocs = <<>> THEN S
    ELSE LET a == Head(new_allocs)
             units == QDiv(QMul(total_cash, QDiv(a[2], QInt(100))), nav[a[1]])
             S1 == IF ~QPos(nav[a[1]]) \/ LeInv(units, EPS_UNITS) THEN S
                   ELSE set_holding(S, c, a[1], units)
         IN  swap_buy_unnormalised(S1, c, Tail(new_allocs), total_cash, total_pct)

\* a variant that reissues the certificate's units at price 1 instead of buying
swap_buy_reissuing_units(S, c, new_allocs, total_cash, total_pct) ==
    [S EXCEPT !.certs[c].unit_supply = total_cash]

\* _execute_fund_swap: the buy loop over the requested allocations
RECURSIVE swap_buy(_, _, _, _, _)
swap_buy(S, c, new_allocs, total_cash, total_pct) ==
    IF new_allocs = <<>> THEN S
    ELSE LET a == Head(new_allocs)
             units == QDiv(QMul(total_cash, QDiv(a[2], total_pct)), nav[a[1]])
             S1 == IF ~QPos(nav[a[1]]) \/ LeInv(units, EPS_UNITS) THEN S
                   ELSE set_holding(S, c, a[1], units)
         IN  swap_buy(S1, c, Tail(new_allocs), total_cash, total_pct)

\* _execute_fund_swap
execute_fund_swap(S, rid, current_date) ==
    LET req == S.reqs[rid]
        c == req.certificate_id
        new_allocs == Get(req.details, "new_allocations", <<>>)
        total_pct == QSumSeq(SeqMap(PctOf, SelectSeq(new_allocs, LAMBDA a : QPos(a[2]))))
    IN
    IF ~has_certificate(S, c) THEN Returned(fail_request(S, rid), FALSE)
    ELSE IF ownership_violated(S, c, rid) THEN Raised(S)
    ELSE IF new_allocs = <<>> THEN Returned(fail_request(S, rid), TRUE)
    ELSE IF ~QPos(total_pct) THEN Returned(fail_request(S, rid), TRUE)
    ELSE
    LET t == set_target_allocations(S, c, new_allocs)
        total_cash == get_certificate_total_value(t.S, c)
        S1 == [t.S EXCEPT !.holdings[c] = [f \in Funds |-> QZero]]
        S2 == swap_buy(S1, c, new_allocs, total_cash, total_pct)
    IN  IF t.raises THEN Raised(S)
        ELSE Returned(complete_request(S2, rid), TRUE)

\* the loop of the transfer executors that recreates the consumed lots at
\* the destination with their original dates
RECURSIVE recreate_lots(_, _, _, _, _, _, _, _, _)
recreate_lots(S, dest, todo, n_lots, total_consumed_units, amount, total_dest_units, prem_to_move, source_type) ==
    IF todo = <<>> THEN S
    ELSE LET lot == Head(todo)
             lot_fraction == IF GtInv(total_consumed_units, EPS_UNITS)
                             THEN QDiv(lot.units_consumed, total_consumed_units)
                             ELSE Q(1, n_lots)
             dest_lot_remaining ==
                 \* prem_to_move is positive for VGBL sources only
                 IF QPos(prem_to_move)
                 THEN QMul(prem_to_move, lot_fraction)
                 ELSE lot.consumed_amount
             S1 == add_contribution(S, dest, QMul(amount, lot_fraction),
                                    lot.contribution_date, source_type,
                                    dest_lot_remaining,
                                    QMul(total_dest_units, lot_fraction),
                                    QMul(amount, lot_fraction))
         IN  recreate_lots(S1, dest, Tail(todo), n_lots, total_consumed_units,
                           amount, total_dest_units, prem_to_move, source_type)

RECURSIVE complete_each(_, _)
complete_each(S, rids) ==
    IF rids = {} THEN S
    ELSE LET r == CHOOSE x \in rids : TRUE
         IN  complete_each(complete_request(S, r), rids \ {r})

\* the end of a move: the savepoint is released or rolled back
move_bought(S0, rid, also, consumed, source_type, b) ==
    IF b.raises THEN Raised(S0)
    ELSE IF consumed # <<>> /\ add_contribution_raises(source_type) THEN Raised(S0)
    ELSE Returned(complete_request(complete_each(b.S, also), rid), TRUE)

\* the lots are recreated at the destination, its units issued, its funds bought
move_arrive(S0, S3, rid, also, dest, amount, consumed, total_dest_units, prem_to_move, source_type) ==
    move_bought(S0, rid, also, consumed, source_type,
        buy_into_certificate(
            update_certificate_units(
                recreate_lots(S3, dest, consumed, Len(consumed),
                              QSumSeq(SeqMap(UnitsConsumedOf, consumed)), amount,
                              total_dest_units, prem_to_move, source_type),
                dest, total_dest_units),
            dest, amount))

\* premium_remaining moves from the source to the destination
move_premium(S0, S2, rid, also, src, dest, amount, consumed, total_dest_units, prem_to_move, moves_premium, source_type) ==
    move_arrive(S0,
                IF moves_premium
                THEN update_vgbl_premium_remaining(
                         update_vgbl_premium_remaining(S2, src, QNeg(prem_to_move)),
                         dest, prem_to_move)
                ELSE S2,
                rid, also, dest, amount, consumed, total_dest_units, prem_to_move,
                source_type)

\* the destination's unit price, read after the source has given up its units
move_priced(S0, S2, rid, also, src, dest, amount, source_value, prem_guard, source_type, consumed, dest_unit_price) ==
    move_premium(S0, S2, rid, also, src, dest, amount, consumed,
        IF QPos(dest_unit_price) THEN QDiv(amount, dest_unit_price) ELSE amount,
        IF S2.certs[src].plan_type = "VGBL" /\ prem_guard
        THEN QMul(amount, QMin(QOne, QMax(QZero,
                 QDiv(S2.certs[src].vgbl_premium_remaining, source_value))))
        ELSE QZero,
        /\ S2.certs[src].plan_type = "VGBL"
        /\ (prem_guard \/ source_type = "transfer_internal"),
        source_type)

move_left(S0, S2, rid, also, src, dest, amount, source_value, prem_guard, source_type, consumed) ==
    move_priced(S0, S2, rid, also, src, dest, amount, source_value, prem_guard,
                source_type, consumed, get_certificate_unit_price(S2, dest))

\* the source's lots are consumed and its units withdrawn
move_consumed(S0, S, rid, also, src, dest, amount, source_value, prem_guard, source_type, units_to_transfer, fifo) ==
    IF fifo.raises THEN Raised(S0)
    ELSE move_left(S0,
                   update_certificate_units([S EXCEPT !.lots = fifo.lots], src,
                                            QNeg(units_to_transfer)),
                   rid, also, src, dest, amount, source_value, prem_guard,
                   source_type, fifo.consumed)

move_sold(S0, S, rid, also, src, dest, amount, source_value, prem_guard, source_type, units_to_transfer, sold) ==
    IF ~sold.ok THEN Returned(fail_request(S, rid), TRUE)
    ELSE move_consumed(S0, sold.S, rid, also, src, dest, amount, source_value,
                       prem_guard, source_type, units_to_transfer,
                       consume_lots_fifo(sold.S.lots, src, units_to_transfer))

\* what _execute_transfer_internal and _execute_portability share once the
\* amount is fixed: sell at the source, consume its lots, move units,
\* premium basis and lots to the destination, buy there
move_between(S0, S, rid, also, src, dest, amount, source_value, prem_guard, source_type) ==
    move_sold(S0, S, rid, also, src, dest, amount, source_value, prem_guard,
              source_type,
              units_at_price(amount, get_certificate_unit_price(S, src)),
              sell_holdings(S, src, amount))

NoCert == 0

\* _execute_transfer_internal
execute_transfer_internal(S, rid, current_date) ==
    LET req == S.reqs[rid]
        src == req.certificate_id
        dest == Get(req.details, "destination_cert_id", NoCert)
    IN
    IF ~has_certificate(S, src) \/ ~has_certificate(S, dest)
    THEN Returned(fail_request(S, rid), FALSE)
    ELSE IF ownership_violated(S, src, rid) \/ ownership_violated(S, dest, rid)
    THEN Raised(S)
    ELSE IF get_target_allocations(S, dest) = {} THEN Returned(fail_request(S, rid), TRUE)
    ELSE IF S.certs[src].plan_type # S.certs[dest].plan_type
    THEN Returned(fail_request(S, rid), TRUE)
    ELSE IF /\ S.certs[src].tax_regime # NoRegime
            /\ S.certs[dest].tax_regime # NoRegime
            /\ S.certs[src].tax_regime # S.certs[dest].tax_regime
    THEN Returned(fail_request(S, rid), TRUE)
    ELSE
    LET S1 == IF S.certs[src].tax_regime # NoRegime /\ S.certs[dest].tax_regime = NoRegime
              THEN set_tax_regime(S, dest, S.certs[src].tax_regime) ELSE S
        source_value == get_certificate_total_value(S1, src)
        amount == QMin(Get(req.details, "amount", QZero), source_value)
    IN  IF ~QPos(amount) THEN Returned(fail_request(S1, rid), FALSE)
        ELSE move_between(S, S1, rid, {}, src, dest, amount, source_value,
                          QPos(source_value), "transfer_internal")

\* the portability_in requests that _execute_portability completes with its own
matching_portability_in(S, src, dest) ==
    {i \in DOMAIN S.reqs :
        /\ S.reqs[i].type = "portability_in"
        /\ S.reqs[i].status = "pending"
        /\ S.reqs[i].certificate_id = dest
        /\ json_ok(S.reqs[i].details)
        /\ Get(S.reqs[i].details, "source_cert_id", NoCert) = src}

\* _execute_portability
execute_portability(S, rid, current_date) ==
    LET req == S.reqs[rid]
        src == req.certificate_id
        dest == Get(req.details, "destination_cert_id", NoCert)
    IN
    IF dest = NoCert THEN Returned(fail_request(S, rid), FALSE)
    ELSE IF ~has_certificate(S, src) \/ ~has_certificate(S, dest)
    THEN Returned(fail_request(S, rid), FALSE)
    ELSE IF ownership_violated(S, src, rid) \/ ownership_violated(S, dest, rid)
    THEN Raised(S)
    ELSE IF get_target_allocations(S, dest) = {} THEN Returned(fail_request(S, rid), TRUE)
    ELSE IF S.certs[src].plan_type # S.certs[dest].plan_type
    THEN Returned(fail_request(S, rid), TRUE)
    ELSE IF /\ S.certs[src].tax_regime # NoRegime
            /\ S.certs[dest].tax_regime # NoRegime
            /\ S.certs[src].tax_regime # S.certs[dest].tax_regime
    THEN Returned(fail_request(S, rid), TRUE)
    ELSE
    LET S1 == IF S.certs[src].tax_regime # NoRegime /\ S.certs[dest].tax_regime = NoRegime
              THEN set_tax_regime(S, dest, S.certs[src].tax_regime) ELSE S
        source_value == get_certificate_total_value(S1, src)
        amount == QMin(Get(req.details, "amount", source_value), source_value)
    IN  move_between(S, S1, rid, matching_portability_in(S, src, dest), src, dest,
                     amount, source_value, GtInv(source_value, EPS_UNITS),
                     "portability")

\* _execute_transfer_external_out, the end: premium_remaining shrinks with the
\* value that left
external_out_done(S2, rid, cert_value, amount) ==
    LET c == S2.reqs[rid].certificate_id
    IN  Returned(complete_request(
                     IF S2.certs[c].plan_type = "VGBL" /\ GtInv(cert_value, EPS_UNITS)
                     THEN update_vgbl_premium_remaining(S2, c,
                              QNeg(QMul(amount, QMin(QOne, QMax(QZero,
                                  QDiv(S2.certs[c].vgbl_premium_remaining,
                                       cert_value))))))
                     ELSE S2,
                     rid),
                 TRUE)

external_out_consumed(S0, S, rid, cert_value, amount, units_to_redeem, fifo) ==
    IF fifo.raises THEN Raised(S0)
    ELSE external_out_done(
             update_certificate_units([S EXCEPT !.lots = fifo.lots],
                                      S.reqs[rid].certificate_id,
                                      QNeg(units_to_redeem)),
             rid, cert_value, amount)

external_out_sold(S, rid, cert_value, amount, units_to_redeem, sold) ==
    IF ~sold.ok THEN Returned(fail_request(S, rid), TRUE)
    ELSE external_out_consumed(S, sold.S, rid, cert_value, amount, units_to_redeem,
             consume_lots_fifo(sold.S.lots, S.reqs[rid].certificate_id,
                               units_to_redeem))

external_out_amount(S, rid, cert_value, amount) ==
    IF ~QPos(amount) THEN Returned(fail_request(S, rid), FALSE)
    ELSE external_out_sold(S, rid, cert_value, amount,
             units_at_price(amount,
                 get_certificate_unit_price(S, S.reqs[rid].certificate_id)),
             sell_holdings(S, S.reqs[rid].certificate_id, amount))

external_out_valued(S, rid, cert_value) ==
    external_out_amount(S, rid, cert_value,
                        QMin(Get(S.reqs[rid].details, "amount", QZero), cert_value))

\* _execute_transfer_external_out
execute_transfer_external_out(S, rid, current_date) ==
    LET c == S.reqs[rid].certificate_id
    IN  IF ~has_certificate(S, c) THEN Returned(fail_request(S, rid), FALSE)
        ELSE IF ownership_violated(S, c, rid) THEN Raised(S)
        ELSE external_out_valued(S, rid, get_certificate_total_value(S, c))

\* models.get_external_portin_schedule, default: <<pct, years_ago>>
PORTIN_SCHEDULE == << <<QInt(30), 1>>, <<QInt(30), 5>>, <<QInt(40), 11>> >>

\* the tranche loop of _execute_transfer_external_in
RECURSIVE portin_lots(_, _, _, _, _, _)
portin_lots(S, c, schedule, amount, total_units, current_date) ==
    IF schedule = <<>> THEN S
    ELSE LET tranche_pct == QDiv(Head(schedule)[1], QInt(100))
             tranche_amount == QMul(amount, tranche_pct)
             tranche_units == QMul(total_units, tranche_pct)
             contrib_date == AddYears(current_date, -Head(schedule)[2])
             tranche_remaining ==
                 IF S.certs[c].plan_type = "VGBL"
                 THEN QMul(tranche_amount, config.portin_gain_pct)
                 ELSE tranche_amount
             S1 == IF ~QPos(tranche_amount) THEN S
                   ELSE add_contribution(S, c, tranche_amount, contrib_date,
                                         "transfer_external", tranche_remaining,
                                         tranche_units, tranche_amount)
         IN  portin_lots(S1, c, Tail(schedule), amount, total_units, current_date)

\* _execute_transfer_external_in
execute_transfer_external_in(S, rid, current_date) ==
    LET req == S.reqs[rid]
        c == req.certificate_id
        amount == Get(req.details, "amount", QZero)
    IN
    IF ~has_certificate(S, c) THEN Returned(fail_request(S, rid), TRUE)
    ELSE IF ownership_violated(S, c, rid) THEN Raised(S)
    ELSE IF get_target_allocations(S, c) = {} THEN Returned(fail_request(S, rid), TRUE)
    ELSE IF ~QPos(amount) THEN Returned(fail_request(S, rid), FALSE)
    ELSE
    LET unit_price == get_certificate_unit_price(S, c)
        total_units == QDiv(amount, unit_price)
        schedule_total_pct ==
            QSumSeq(SeqMap(LAMBDA t : t[1], config.portin_schedule))
        S1 == portin_lots(S, c, config.portin_schedule, amount, total_units, current_date)
        S2 == update_certificate_units(S1, c, total_units)
        S3 == IF S.certs[c].plan_type = "VGBL"
              THEN update_vgbl_premium_remaining(S2, c,
                       QMul(amount, config.portin_gain_pct))
              ELSE S2
        b == buy_into_certificate(S3, c, amount)
    IN  IF QGt(QAbs(QSub(schedule_total_pct, QInt(100))), <<1, 100>>)
        THEN Returned(fail_request(S, rid), TRUE)
        ELSE IF add_contribution_raises("transfer_external") \/ b.raises THEN Raised(S)
        ELSE Returned(complete_request(b.S, rid), TRUE)

\* _REQUEST_EXECUTORS: the types the scheduler dispatches
ExecutableTypes == {"fund_swap", "withdrawal", "contribution", "portability_out",
                    "brokerage_withdrawal", "transfer_internal",
                    "transfer_external_out", "transfer_external_in"}

\* executor(db, req, details, current_date, step_log)
execute(S, rid, current_date) ==
    CASE S.reqs[rid].type = "fund_swap" -> execute_fund_swap(S, rid, current_date)
      [] S.reqs[rid].type = "withdrawal" -> execute_withdrawal(S, rid, current_date)
      [] S.reqs[rid].type = "contribution" -> execute_contribution(S, rid, current_date)
      [] S.reqs[rid].type = "portability_out" -> execute_portability(S, rid, current_date)
      [] S.reqs[rid].type = "brokerage_withdrawal" ->
             execute_brokerage_withdrawal(S, rid, current_date)
      [] S.reqs[rid].type = "transfer_internal" ->
             execute_transfer_internal(S, rid, current_date)
      [] S.reqs[rid].type = "transfer_external_out" ->
             execute_transfer_external_out(S, rid, current_date)
      [] S.reqs[rid].type = "transfer_external_in" ->
             execute_transfer_external_in(S, rid, current_date)

(***************************************************************************)
(* The universe of the model                                               *)
(***************************************************************************)
MaxOps == 3        \* client operations (create, cancel, reject) per behaviour
MaxMonth == 3      \* monthly steps begun per behaviour
MaxSteps == 2      \* months asked for in one call of evolve_time

\* models.get_sim_date: the date of a database that has never evolved
START_DATE == 20260101
\* seed_data: requests are also inserted with an explicit earlier created_date
SEED_DATE == 20251201

\* fund_returns: fund 1 cycles through -50%, +1/3, +50%; fund 2 has no series
FUND_RETURNS == [f \in Funds |->
                    IF f = 1 THEN << <<-1, 2>>, <<1, 3>>, <<1, 2>> >> ELSE <<>>]

Amt9999 == <<19999, 200>>

Alloc(p1, p2) == << <<1, QInt(p1)>>, <<2, QInt(p2)>> >>

Template(u, c, type, details, backdated) ==
    [user_id |-> u, certificate_id |-> c, type |-> type, details |-> details,
     backdated |-> backdated]

\* what the clients of one behaviour may ask for
Menu(w) ==
    CASE w = "lots" ->
           { Template(1, 1, "contribution", [amount |-> QInt(100)], FALSE),
             Template(1, 1, "contribution", [amount |-> QInt(100)], TRUE),
             Template(1, 1, "withdrawal",
                      [amount |-> QInt(50), tax_regime |-> "regressive"], FALSE),
             Template(1, 1, "withdrawal",
                      [amount |-> Amt9999, tax_regime |-> "progressive"], FALSE),
             Template(1, 1, "withdrawal", [amount |-> QInt(250)], FALSE) }
      [] w = "swap" ->
           { Template(1, 1, "contribution", [amount |-> QInt(100)], FALSE),
             Template(2, 1, "contribution", [amount |-> QInt(100)], FALSE),
             Template(1, 1, "fund_swap", [new_allocations |-> Alloc(50, 50)], FALSE),
             Template(1, 1, "fund_swap", [new_allocations |-> Alloc(60, 30)], FALSE),
             Template(1, NoCert, "brokerage_withdrawal", [amount |-> QInt(250)], FALSE) }
      [] w = "transfer" ->
           { Template(1, 1, "transfer_external_in", [amount |-> QInt(100)], FALSE),
             Template(2, 4, "transfer_external_in", [amount |-> QInt(100)], FALSE),
             Template(1, 1, "transfer_external_out", [amount |-> QInt(60)], FALSE),
             Template(1, 1, "transfer_internal",
                      [destination_cert_id |-> 2, amount |-> QInt(50)], FALSE),
             Template(1, 1, "transfer_internal",
                      [destination_cert_id |-> 3, amount |-> QInt(50)], FALSE),
             Template(1, 2, "withdrawal",
                      [amount |-> QInt(250), tax_regime |-> "regressive"], FALSE) }
      [] w = "legacy" ->
           { Template(1, 1, "contribution", [amount |-> QInt(100)], FALSE),
             Template(1, 1, "contribution", [amount |-> QInt(100)], TRUE),
             Template(1, NoCert, "brokerage_withdrawal", [amount |-> QInt(50)], FALSE) }
      [] w = "basis" ->
           { Template(1, 1, "transfer_internal",
                      [destination_cert_id |-> 2, amount |-> QInt(50)], FALSE),
             Template(1, 1, "transfer_internal",
                      [destination_cert_id |-> 2, amount |-> QInt(20)], FALSE),
             Template(1, 2, "transfer_external_in", [amount |-> QInt(100)], FALSE),
             Template(1, 2, "withdrawal",
                      [amount |-> QInt(20), tax_regime |-> "progressive"], FALSE) }
      [] w = "foreign" ->
           { Template(2, 1, "withdrawal",
                      [amount |-> QInt(20), tax_regime |-> "progressive"], FALSE),
             Template(2, 1, "fund_swap", [new_allocations |-> Alloc(50, 50)], FALSE),
             Template(2, 1, "contribution", [amount |-> QInt(100)], FALSE),
             Template(2, 1, "transfer_external_out", [amount |-> QInt(20)], FALSE),
             Template(2, 1, "transfer_external_in", [amount |-> QInt(100)], FALSE),
             Template(1, 1, "transfer_internal",
                      [destination_cert_id |-> 4, amount |-> QInt(20)], FALSE),
             Template(2, 4, "transfer_internal",
                      [destination_cert_id |-> 1, amount |-> QInt(20)], FALSE),
             Template(1, 1, "withdrawal",
                      [amount |-> QInt(20), tax_regime |-> "progressive"], FALSE) }
      [] w = "unrouted" ->
           { Template(1, 2, "contribution", [amount |-> QInt(100)], FALSE),
             Template(1, 1, "transfer_internal",
                      [destination_cert_id |-> 2, amount |-> QInt(20)], FALSE),
             Template(1, 2, "transfer_external_in", [amount |-> QInt(100)], FALSE),
             Template(1, 1, "contribution", [amount |-> QInt(100)], FALSE) }
      [] w = "regimes" ->
           { Template(1, 1, "transfer_internal",
                      [destination_cert_id |-> 2, amount |-> QInt(20)], FALSE),
             Template(1, 1, "transfer_internal",
                      [destination_cert_id |-> 3, amount |-> QInt(20)], FALSE),
             Template(1, 2, "transfer_internal",
                      [destination_cert_id |-> 1, amount |-> QInt(10)], FALSE) }
      [] w = "dust" ->
           { Template(1, 1, "withdrawal",
                      [amount |-> <<999999, 10000>>, tax_regime |-> "progressive"], FALSE),
             Template(1, 1, "transfer_internal",
                      [destination_cert_id |-> 2, amount |-> QInt(20)], FALSE) }
      [] w = "portin" ->
           { Template(1, 2, "transfer_external_in", [amount |-> QInt(100)], FALSE),
             Template(1, 2, "transfer_external_in", [amount |-> QInt(10000)], FALSE),
             Template(1, 2, "withdrawal",
                      [amount |-> QInt(20000), tax_regime |-> "progressive"], FALSE) }
      [] w = "portability" ->
           { Template(1, 1, "contribution", [amount |-> QInt(100)], FALSE),
             Template(1, 2, "contribution", [amount |-> QInt(100)], FALSE) }

Workloads == {"lots", "swap", "transfer", "legacy"}

Request(t, created_date) ==
    [user_id |-> t.user_id, certificate_id |-> t.certificate_id, type |-> t.type,
     details |-> t.details, created_date |-> created_date, status |-> "pending"]

\* rows that an upgraded database carries over: a portability pair, and a
\* request whose details text is not JSON
LegacyRequests ==
    << Request(Template(1, 1, "portability_out", [destination_cert_id |-> 2,
                                                  amount |-> QZero], FALSE),
               START_DATE),
       Request(Template(1, 2, "portability_in", [source_cert_id |-> 1], FALSE),
               START_DATE),
       Request(Template(1, 1, "contribution", [malformed |-> TRUE], FALSE),
               START_DATE) >>

InitCerts ==
    [c \in Certs |->
        [user_id |-> IF c = 4 THEN 2 ELSE 1,
         plan_type |-> IF c = 3 THEN "PGBL" ELSE "VGBL",
         tax_regime |-> NoRegime,
         unit_supply |-> QZero,
         vgbl_premium_remaining |-> QZero]]

InitAllocs ==
    [c \in Certs |->
        [f \in Funds |->
            CASE c = 1 -> IF f = 1 THEN QInt(100) ELSE QZero
              [] c = 2 -> QInt(50)
              [] c = 3 -> IF f = 2 THEN QInt(100) ELSE QZero
              [] OTHER -> QZero]]

NoProbe == [kind |-> "none"]

(***************************************************************************)
(* The portal: scheduler, clients and administrator                        *)
(***************************************************************************)
Init ==
    /\ nav = [f \in Funds |-> IF f = 1 THEN QInt(2) ELSE QOne]
    /\ certs = InitCerts
    /\ lots = <<>>
    /\ holdings = [c \in Certs |-> [f \in Funds |-> QZero]]
    /\ allocs = InitAllocs
    /\ cash = [u \in Users |-> IF u = 1 THEN QInt(300) ELSE QInt(100)]
    /\ withdrawals = <<>>
    /\ workload \in Workloads
    /\ reqs = IF workload = "legacy" THEN LegacyRequests ELSE <<>>
    \* the database is either created by database.init_db, or an existing file
    \* whose contributions table carries the iof_amount column
    /\ \E col \in BOOLEAN :
          config = [iof_declared |-> [u \in Users |-> QZero],
                    portin_gain_pct |-> <<4, 5>>,
                    portin_schedule |-> PORTIN_SCHEDULE,
                    iof_amount_column |-> col]
    /\ simMonth = 0
    /\ simDate = START_DATE
    /\ pc = "idle"
    /\ pending = <<>>
    /\ stepsLeft = 0
    /\ log = <<>>
    /\ ops = 0
    /\ stepsBegun = 0
    /\ probe = NoProbe

bounds == <<workload, probe>>
clock == <<simMonth, simDate>>

\* admin.evolve_time: the administrator asks for steps months
EvolveTime(steps) ==
    /\ pc = "idle"
    /\ stepsBegun + steps <= MaxMonth
    /\ pc' = "step"
    /\ stepsLeft' = steps
    /\ UNCHANGED <<nav, ledger, reqs, config, clock, pending, log, ops, stepsBegun, bounds>>

\* new_nav = old_nav * (1 + ret) with the cyclic return of the month
new_nav(f, month) ==
    IF FUND_RETURNS[f] = <<>> THEN nav[f]
    ELSE QMul(nav[f], QAdd(QOne, FUND_RETURNS[f][((month - 1) % Len(FUND_RETURNS[f])) + 1]))

\* a variant that orders the requests by id alone
RequestBeforeById(R, i, j) == i < j

\* ORDER BY created_date ASC, id ASC
RequestBefore(R, i, j) ==
    \/ R[i].created_date < R[j].created_date
    \/ (R[i].created_date = R[j].created_date /\ i < j)

RECURSIVE OrderRequests(_, _)
OrderRequests(R, ids) ==
    IF ids = {} THEN <<>>
    ELSE LET first == CHOOSE i \in ids : \A j \in ids \ {i} : RequestBefore(R, i, j)
         IN  <<first>> \o OrderRequests(R, ids \ {first})

\* SELECT * FROM requests WHERE status='pending' ORDER BY created_date, id
select_pending(R) == OrderRequests(R, {i \in DOMAIN R : R[i].status = "pending"})

\* one iteration of evolve_time up to the SELECT of the drain: the NAVs are
\* updated and committed, the pending requests are read
BeginStep ==
    /\ pc = "step"
    /\ nav' = [f \in Funds |-> new_nav(f, simMonth + 1)]
    /\ pending' = select_pending(reqs)
    /\ log' = SeqMap(LAMBDA f : [kind |-> "nav", id |-> f],
                     SelectSeq(<<1, 2>>, LAMBDA f : FUND_RETURNS[f] # <<>>))
    /\ pc' = "drain"
    /\ stepsBegun' = stepsBegun + 1
    /\ UNCHANGED <<ledger, reqs, config, clock, stepsLeft, ops, bounds>>

current_date == NextMonthDate(simDate)

\* the ledger and the queue after the executor of request rid has ended with
\* result r: RELEASE, or ROLLBACK TO and fail_request
Settle(rid, r) ==
    /\ pending' = Tail(pending)
    /\ certs' = r.S.certs
    /\ lots' = r.S.lots
    /\ holdings' = r.S.holdings
    /\ allocs' = r.S.allocs
    /\ cash' = r.S.cash
    /\ withdrawals' = r.S.withdrawals
    /\ reqs' = IF r.raised THEN fail_request(Store, rid).reqs ELSE r.S.reqs
    /\ log' = IF r.event THEN Append(log, [kind |-> "request", id |-> rid])
              ELSE log
    /\ UNCHANGED <<pc, stepsLeft>>

\* one iteration of the loop of _process_all_pending_requests
ProcessNext ==
    /\ pc = "drain"
    /\ pending # <<>>
    /\ IF reqs[Head(pending)].type \notin ExecutableTypes
       THEN /\ pending' = Tail(pending)
            /\ UNCHANGED <<ledger, reqs, log, pc, stepsLeft>>
       ELSE IF ~json_ok(reqs[Head(pending)].details)
       \* json.loads raises before the savepoint exists: ROLLBACK TO fails
       \* in the handler and the exception leaves evolve_time
       THEN /\ pending' = <<>>
            /\ pc' = "idle"
            /\ stepsLeft' = 0
            /\ UNCHANGED <<ledger, reqs, log>>
       ELSE Settle(Head(pending), execute(Store, Head(pending), current_date))
    /\ UNCHANGED <<nav, config, clock, ops, stepsBegun, bounds>>

\* the end of one iteration of evolve_time: set_sim_month, set_sim_date
FinishStep ==
    /\ pc = "drain"
    /\ pending = <<>>
    /\ simMonth' = simMonth + 1
    /\ simDate' = NextMonthDate(simDate)
    /\ stepsLeft' = stepsLeft - 1
    /\ pc' = IF stepsLeft > 1 THEN "step" ELSE "idle"
    /\ UNCHANGED <<nav, ledger, reqs, config, pending, log, ops, stepsBegun, bounds>>

\* models.create_request, called by a portal route or with an explicit date
CreateRequest(t) ==
    /\ ops < MaxOps
    /\ reqs' = Append(reqs, Request(t, IF t.backdated THEN SEED_DATE ELSE simDate))
    /\ ops' = ops + 1
    /\ UNCHANGED <<nav, ledger, config, clock, pc, pending, stepsLeft, log,
                   stepsBegun, bounds>>

\* portal.cancel_request
CancelRequest(rid) ==
    /\ ops < MaxOps
    /\ reqs[rid].status = "pending"
    /\ reqs' = [reqs EXCEPT ![rid].status = "cancelled"]
    /\ ops' = ops + 1
    /\ UNCHANGED <<nav, ledger, config, clock, pc, pending, stepsLeft, log,
                   stepsBegun, bounds>>

\* admin.reject_request
RejectRequest(rid) ==
    /\ ops < MaxOps
    /\ reqs[rid].status = "pending"
    /\ reqs' = [reqs EXCEPT ![rid].status = "rejected"]
    /\ ops' = ops + 1
    /\ UNCHANGED <<nav, ledger, config, clock, pc, pending, stepsLeft, log,
                   stepsBegun, bounds>>

Next ==
    \/ \E steps \in 1..MaxSteps : EvolveTime(steps)
    \/ BeginStep
    \/ ProcessNext
    \/ FinishStep
    \/ \E t \in Menu(workload) : CreateRequest(t)
    \/ \E rid \in DOMAIN reqs : CancelRequest(rid)
    \/ \E rid \in DOMAIN reqs : RejectRequest(rid)

Spec == Init /\ [][Next]_vars

(***************************************************************************)
(* Properties                                                              *)
(***************************************************************************)
LotUnits(c) ==
    QSumSeq(SeqMap(LAMBDA l : IF l.certificate_id = c THEN l.units_remaining
                              ELSE QZero,
                   lots))

\* C1: between requests, every certificate's unit_supply equals the sum of
\* units_remaining over its lots, within the reconcile epsilon of 1e-6.
C1_Conservation ==
    \A c \in Certs :
        LeInv(QAbs(QSub(LotUnits(c), certs[c].unit_supply)), EPS_RECONCILE)

\* a step of the drain that dispatches the request at the head of the batch
Dispatches(rid) ==
    /\ pc = "drain"
    /\ pending # <<>>
    /\ rid = Head(pending)
    /\ pending' # pending

\* C2: a request that ends failed leaves lots, holdings, certificates
\* (unit_supply, premium_remaining, tax_regime), target allocations,
\* brokerage cash and withdrawals exactly as they were before it began.
C2_FailedLeavesLedger ==
    [][\A rid \in DOMAIN reqs :
          (Dispatches(rid) /\ reqs[rid].status # "failed"
                           /\ reqs'[rid].status = "failed")
          => UNCHANGED ledger]_vars

\* C3: within a drain, a request whose decoding or execution raises is marked
\* failed, nothing else about the batch changes: the drain goes on with the
\* rest of the batch, so the later requests are dispatched and the month's
\* clock update happens.
C3_FailureIsolation ==
    [][\A rid \in DOMAIN reqs :
          Dispatches(rid)
          => /\ pc' = "drain"
             /\ pending' = Tail(pending)
             /\ (reqs[rid].type \in ExecutableTypes /\ ~json_ok(reqs[rid].details))
                  => reqs' = [reqs EXCEPT ![rid].status = "failed"]]_vars

\* C5: a request that is completed, failed, rejected or cancelled never
\* changes status again.
C5_TerminalIsFinal ==
    [][\A rid \in DOMAIN reqs :
          reqs[rid].status # "pending" => reqs'[rid].status = reqs[rid].status]_vars

\* the batch read at the start of a drain
BatchRead == pc = "step" /\ pc' = "drain"

\* C4: the batch of a drain holds exactly the requests pending at its start,
\* in ascending (created_date, id) order whatever their types, and the drain
\* dispatches them one at a time from the head, so that what an earlier
\* request did to a certificate is what a later one of the month starts from.
C4_ChronologicalOrder ==
    [][/\ BatchRead =>
            /\ {pending'[i] : i \in DOMAIN pending'}
                 = {rid \in DOMAIN reqs : reqs[rid].status = "pending"}
            /\ \A i, j \in DOMAIN pending' :
                 i < j =>
                   \/ reqs[pending'[i]].created_date < reqs[pending'[j]].created_date
                   \/ /\ reqs[pending'[i]].created_date = reqs[pending'[j]].created_date
                      /\ pending'[i] < pending'[j]
       /\ (pc = "drain" /\ pending' # pending /\ pc' = "drain")
            => /\ pending' = Tail(pending)
               /\ LET r == execute(Store, Head(pending), current_date)
                  IN  reqs[Head(pending)].type \in ExecutableTypes
                      => <<certs', lots', holdings', allocs', cash', withdrawals'>>
                           = <<r.S.certs, r.S.lots, r.S.holdings, r.S.allocs,
                               r.S.cash, r.S.withdrawals>>]_vars

\* C4 witness: in the first month a withdrawal with the smaller id ran after
\* a contribution with the earlier created_date, and found its lot to redeem.
C4_LaterSeesEarlier ==
    /\ stepsBegun = 1
    /\ pc = "drain"
    /\ \E i, j \in DOMAIN reqs :
         /\ i < j
         /\ reqs[i].type = "withdrawal" /\ reqs[i].status = "completed"
         /\ reqs[j].type = "contribution" /\ reqs[j].status = "completed"
         /\ reqs[j].created_date < reqs[i].created_date
         /\ reqs[i].certificate_id = reqs[j].certificate_id
    /\ withdrawals # <<>>

\* the unit price of certificate c in the current state: total value over
\* unit supply, and 1 for a certificate without units or without value
PriceBefore(c) ==
    LET value == QAdd(QMul(holdings[c][1], nav[1]), QMul(holdings[c][2], nav[2]))
    IN  IF LeInv(certs[c].unit_supply, EPS_UNITS) \/ ~QPos(value) THEN QOne
        ELSE QDiv(value, certs[c].unit_supply)

\* C6: a contribution that completes with net amount A adds one lot of
\* exactly A / p units and A / p to unit_supply, p being the unit price of
\* the certificate before the contributed money was added (1 when empty).
C6_PriceBeforeMutation ==
    [][\A rid \in DOMAIN reqs :
          (Dispatches(rid) /\ reqs[rid].type = "contribution"
                           /\ reqs'[rid].status = "completed")
          => LET c == reqs[rid].certificate_id
                 lot == lots'[Len(lots')]
                 issued == QDiv(lot.amount, PriceBefore(c))
             IN  /\ Len(lots') = Len(lots) + 1
                 /\ lot.certificate_id = c
                 /\ lot.units_total = issued
                 /\ lot.units_remaining = issued
                 /\ certs'[c].unit_supply = QAdd(certs[c].unit_supply, issued)]_vars

\* C6 witness: 100 contributed at NAV 1, the NAV doubled, 100 contributed
\* again: lots of 100 and 50 units, 150 units in all, total value 300.
C6_Example ==
    /\ nav[1] = QInt(2)
    /\ Len(lots) = 2
    /\ lots[1].units_remaining = QInt(100) /\ lots[1].amount = QInt(100)
    /\ lots[2].units_remaining = QInt(50) /\ lots[2].amount = QInt(100)
    /\ certs[1].unit_supply = QInt(150)
    /\ get_certificate_total_value(Store, 1) = QInt(300)

\* C8: executing a fund_swap request changes nothing but holdings and target
\* allocations: lots, certificates (unit_supply, premium_remaining,
\* tax_regime), brokerage cash and withdrawals are the same before and after.
C8_FundSwapFrame ==
    [][\A rid \in DOMAIN reqs :
          (Dispatches(rid) /\ reqs[rid].type = "fund_swap")
          => /\ lots' = lots
             /\ certs' = certs
             /\ cash' = cash
             /\ withdrawals' = withdrawals
             /\ \A c \in Certs \ {reqs[rid].certificate_id} :
                  holdings'[c] = holdings[c] /\ allocs'[c] = allocs[c]]_vars

\* C8 witness: a fund swap completed on a certificate that holds a lot, and
\* moved half of its holdings into the second fund.
C8_SwapHappened ==
    /\ \E rid \in DOMAIN reqs :
         /\ reqs[rid].type = "fund_swap" /\ reqs[rid].status = "completed"
         /\ reqs[rid].certificate_id = 1
    /\ \E i \in DOMAIN lots : lots[i].certificate_id = 1
    /\ QPos(holdings[1][2])
    /\ allocs[1][2] = QInt(50)

(***************************************************************************)
(* The tax and lot functions on their own: the portal is parked in its     *)
(* initial state and probe holds the arguments, then the results.          *)
(***************************************************************************)
portal == <<nav, certs, lots, holdings, allocs, cash, withdrawals, reqs, config,
            simMonth, simDate, pc, pending, stepsLeft, log, workload, ops,
            stepsBegun>>

Parked ==
    /\ nav = [f \in Funds |-> IF f = 1 THEN QInt(2) ELSE QOne]
    /\ certs = InitCerts
    /\ lots = <<>>
    /\ holdings = [c \in Certs |-> [f \in Funds |-> QZero]]
    /\ allocs = InitAllocs
    /\ cash = [u \in Users |-> IF u = 1 THEN QInt(300) ELSE QInt(100)]
    /\ withdrawals = <<>>
    /\ workload = "lots"
    /\ reqs = <<>>
    /\ config = [iof_declared |-> [u \in Users |-> QZero],
                 portin_gain_pct |-> <<4, 5>>,
                 portin_schedule |-> PORTIN_SCHEDULE,
                 iof_amount_column |-> TRUE]
    /\ simMonth = 0
    /\ simDate = START_DATE
    /\ pc = "idle"
    /\ pending = <<>>
    /\ stepsLeft = 0
    /\ log = <<>>
    /\ ops = 0
    /\ stepsBegun = 0

\* lot dates: leap days, month ends and ordinary days
LotDates == {20240229, 20200229, 20160229, 20160101, 20240101, 20231231,
             20240131, 20250630, 20241130, 20180315, 20220228, 20190301}

\* the years of REGRESSIVE_YEAR_BRACKETS
Boundaries == {REGRESSIVE_YEAR_BRACKETS[i][1] : i \in DOMAIN REGRESSIVE_YEAR_BRACKETS}

InitRate ==
    /\ Parked
    /\ \E d \in LotDates, y \in Boundaries :
         probe = [kind |-> "rate_in", d |-> d, y |-> y]

\* regressive_rate on the boundary date d + y years and on the day after
EvalRate ==
    /\ probe.kind = "rate_in"
    /\ probe' = [kind |-> "rate_out", d |-> probe.d, y |-> probe.y,
                 boundary |-> AddYears(probe.d, probe.y),
                 on_boundary |-> regressive_rate(probe.d, AddYears(probe.d, probe.y)),
                 day_after |-> regressive_rate(probe.d,
                                               NextDay(AddYears(probe.d, probe.y)))]
    /\ UNCHANGED portal

NextRate == EvalRate

SpecRate == InitRate /\ [][NextRate]_vars

\* the rate of the bracket that ends at boundary y, and the next lower rate
RateUpTo(y) ==
    CASE y = 2 -> <<7, 20>> [] y = 4 -> <<3, 10>> [] y = 6 -> <<1, 4>>
      [] y = 8 -> <<1, 5>> [] y = 10 -> <<3, 20>>
RateAfter(y) ==
    CASE y = 2 -> <<3, 10>> [] y = 4 -> <<1, 4>> [] y = 6 -> <<1, 5>>
      [] y = 8 -> <<3, 20>> [] y = 10 -> <<1, 10>>

\* C10: on the date d + y calendar years (leap-adjusted), regressive_rate
\* still returns the rate of the bracket that ends at boundary y, and one
\* day later the next lower rate.
C10_BoundaryInclusive ==
    probe.kind = "rate_out"
    => /\ probe.on_boundary = RateUpTo(probe.y)
       /\ probe.day_after = RateAfter(probe.y)

\* units and cost basis of a lot: bought at unit price 1, 2 and 4/3
LotShapes == { <<QInt(100), QInt(100)>>, <<QInt(50), QInt(100)>>,
               <<QInt(75), QInt(100)>> }
\* units asked of consume_lots_fifo
FifoAsks == { QInt(30), QInt(50), Amt9999, QInt(100), QInt(120), <<29999, 200>>,
              QInt(150), <<1, 200>>, <<14999, 200>> }
\* the older lot has the smaller id and the earlier date, the greater id and
\* the earlier date, or the smaller id and the same date
LotOrders == {"id_and_date", "date_only", "id_only"}

ProbeLot(shape, date) ==
    [certificate_id |-> 1, amount |-> shape[2], gross_amount |-> shape[2],
     remaining_amount |-> shape[2], contribution_date |-> date,
     source_type |-> "contribution", units_total |-> shape[1],
     units_remaining |-> shape[1]]

\* the contributions table of the probe; older is the index of the older lot
ProbeLots(s1, s2, order) ==
    CASE order = "id_and_date" -> <<ProbeLot(s1, 20260201), ProbeLot(s2, 20260401)>>
      [] order = "date_only" -> <<ProbeLot(s2, 20260401), ProbeLot(s1, 20260201)>>
      [] order = "id_only" -> <<ProbeLot(s1, 20260201), ProbeLot(s2, 20260201)>>
OlderIndex(order) == IF order = "date_only" THEN 2 ELSE 1

InitFifo ==
    /\ Parked
    /\ \E s1 \in LotShapes, s2 \in LotShapes, k \in FifoAsks, order \in LotOrders :
         /\ QLe(k, QAdd(s1[1], s2[1]))
         /\ probe = [kind |-> "fifo_in", L |-> ProbeLots(s1, s2, order),
                     older |-> OlderIndex(order), k |-> k]

\* models.consume_lots_fifo on the two lots
EvalFifo ==
    /\ probe.kind = "fifo_in"
    /\ LET r == consume_lots_fifo(probe.L, 1, probe.k)
       IN  probe' = [kind |-> "fifo_out", L |-> probe.L, older |-> probe.older,
                     k |-> probe.k, after |-> r.lots, raises |-> r.raises]
    /\ UNCHANGED portal

NextFifo == EvalFifo

SpecFifo == InitFifo /\ [][NextFifo]_vars

\* what FIFO consumption of take units leaves of a lot, without any cleanup
Shrunk(lot, take) ==
    [units |-> QSub(lot.units_remaining, take),
     amount |-> QMul(lot.remaining_amount,
                     QDiv(QSub(lot.units_remaining, take), lot.units_remaining))]

\* the same with the cleanup: a lot left with less than 1e-9 units or less
\* than 0.01 of remaining amount is left with nothing
Cleaned(lot, take) ==
    LET s == Shrunk(lot, take)
    IN  IF LtInv(s.units, EPS_UNITS) \/ LtInv(s.amount, EPS_CENT)
        THEN [units |-> QZero, amount |-> QZero]
        ELSE s

Left(lot) == [units |-> lot.units_remaining, amount |-> lot.remaining_amount]

TaxPremiums == { <<1, 50>>, QInt(100), QInt(1000) }
\* growth of the NAV since the contributions
TaxGrowths == { QOne, <<10001, 10000>>, <<4, 3>>, QInt(2) }
\* dates of the certificate's lots: one old lot, one recent lot, or both
TaxLotDates == { <<20160101>>, <<20260101>>, <<20160101, 20260101>> }
\* the withdrawals run in the first month's drain
TAX_DATE == NextMonthDate(START_DATE)

\* the contributions table: the lots of the dates given, the premium split
\* evenly, once on the VGBL certificate 1 and once on the PGBL certificate 3
TaxLots(dates, premium) ==
    LET n == Len(dates)
        share == QDiv(premium, QInt(n))
    IN  [i \in 1..(2 * n) |->
            [certificate_id |-> IF i <= n THEN 1 ELSE 3,
             amount |-> share, gross_amount |-> share, remaining_amount |-> share,
             contribution_date |-> dates[IF i <= n THEN i ELSE i - n],
             source_type |-> "contribution",
             units_total |-> share, units_remaining |-> share]]

\* certificates 1 (VGBL) and 3 (PGBL) of user 1 hold the same lots, regime and
\* value, and a full withdrawal of each is pending
InitTax ==
    \E premium \in TaxPremiums, g \in TaxGrowths, dates \in TaxLotDates,
       regime \in Regimes :
      /\ nav = [f \in Funds |-> IF f = 1 THEN g ELSE QOne]
      /\ certs = [c \in Certs |->
                    IF c \in {1, 3}
                    THEN [InitCerts[c] EXCEPT
                            !.tax_regime = regime,
                            !.unit_supply = premium,
                            !.vgbl_premium_remaining =
                                IF c = 1 THEN premium ELSE QZero]
                    ELSE InitCerts[c]]
      /\ lots = TaxLots(dates, premium)
      /\ holdings = [c \in Certs |-> [f \in Funds |->
                        IF c \in {1, 3} /\ f = 1 THEN premium ELSE QZero]]
      /\ allocs = [InitAllocs EXCEPT ![3] = InitAllocs[1]]
      /\ cash = [u \in Users |-> IF u = 1 THEN QInt(300) ELSE QInt(100)]
      /\ withdrawals = <<>>
      /\ workload = "lots"
      /\ reqs = << Request(Template(1, 1, "withdrawal",
                                    [amount |-> QMul(premium, g)], FALSE), START_DATE),
                   Request(Template(1, 3, "withdrawal",
                                    [amount |-> QMul(premium, g)], FALSE), START_DATE) >>
      /\ config = [iof_declared |-> [u \in Users |-> QZero],
                   portin_gain_pct |-> <<4, 5>>,
                   portin_schedule |-> PORTIN_SCHEDULE,
                   iof_amount_column |-> TRUE]
      /\ simMonth = 0
      /\ simDate = START_DATE
      /\ pc = "idle"
      /\ pending = <<>>
      /\ stepsLeft = 0
      /\ log = <<>>
      /\ ops = 0
      /\ stepsBegun = 0
      /\ probe = [kind |-> "tax_in", V |-> QMul(premium, g), P_rem |-> premium]

\* the ledger after the two withdrawals
TaxSettle(S, raised) ==
    /\ certs' = S.certs
    /\ lots' = S.lots
    /\ holdings' = S.holdings
    /\ allocs' = S.allocs
    /\ cash' = S.cash
    /\ withdrawals' = S.withdrawals
    /\ reqs' = S.reqs
    /\ probe' = [kind |-> "tax_out", V |-> probe.V, P_rem |-> probe.P_rem,
                 raised |-> raised]

TaxSecond(r1, r2) == TaxSettle(r2.S, r1.raised \/ r2.raised)

TaxFirst(r1) == TaxSecond(r1, execute_withdrawal(r1.S, 2, TAX_DATE))

\* _execute_withdrawal on the VGBL request, then on the PGBL request
EvalTax ==
    /\ probe.kind = "tax_in"
    /\ TaxFirst(execute_withdrawal(Store, 1, TAX_DATE))
    /\ UNCHANGED <<nav, config, simMonth, simDate, pc, pending, stepsLeft, log,
                   workload, ops, stepsBegun>>

NextTax == EvalTax

SpecTax == InitTax /\ [][NextTax]_vars

\* both full withdrawals of the probe were made
BothWithdrawn ==
    /\ probe.kind = "tax_out"
    /\ ~probe.raised
    /\ Len(withdrawals) = 2
    /\ withdrawals[1].certificate_id = 1 /\ withdrawals[1].gross_amount = probe.V
    /\ withdrawals[2].certificate_id = 3 /\ withdrawals[2].gross_amount = probe.V

\* C9 as stated: a full VGBL withdrawal with premium_remaining equal to the
\* total value withholds 0; with total value above premium_remaining it
\* withholds more than 0 and less than the PGBL certificate with the same lots,
\* regime and value.
C9_VgblTaxBetween ==
    probe.kind = "tax_out"
    => /\ BothWithdrawn
       /\ probe.P_rem = probe.V => withdrawals[1].tax_withheld = QZero
       /\ QGt(probe.V, probe.P_rem)
          => /\ QGt(withdrawals[1].tax_withheld, QZero)
             /\ QLt(withdrawals[1].tax_withheld, withdrawals[2].tax_withheld)

\* C9 amended: with premium_remaining equal to the total value the tax is 0;
\* with total value above premium_remaining the tax, rounded to the cent, is
\* between 0 and the PGBL tax, above 0 when the earnings exceed 0.05 and below
\* the PGBL tax when premium_remaining exceeds 0.10.
C9_VgblTaxBetweenCents ==
    probe.kind = "tax_out"
    => /\ BothWithdrawn
       /\ probe.P_rem = probe.V => withdrawals[1].tax_withheld = QZero
       /\ QGt(probe.V, probe.P_rem)
          => /\ QGe(withdrawals[1].tax_withheld, QZero)
             /\ QLe(withdrawals[1].tax_withheld, withdrawals[2].tax_withheld)
             /\ QGt(QSub(probe.V, probe.P_rem), <<1, 20>>)
                => QGt(withdrawals[1].tax_withheld, QZero)
             /\ QGt(probe.P_rem, <<1, 10>>)
                => QLt(withdrawals[1].tax_withheld, withdrawals[2].tax_withheld)

\* C9 witness: a grown VGBL certificate was withdrawn in full and paid a tax
\* above 0 and below that of its PGBL twin.
C9_GrownAndTaxed ==
    /\ BothWithdrawn
    /\ QGt(probe.V, probe.P_rem)
    /\ QGt(withdrawals[1].tax_withheld, QZero)
    /\ QLt(withdrawals[1].tax_withheld, withdrawals[2].tax_withheld)
    /\ certs[1].unit_supply = QZero

(***************************************************************************)
(* Excise on a year's contributions                                        *)
(***************************************************************************)
\* contributions of one behaviour
IofSteps == 3
\* the user's declared total at other issuers
IofDeclared == { QZero, QInt(550000), QInt(600000) }
\* gross amounts of the contributions
IofAmounts == { QInt(100000), QInt(50000), <<1, 20>>, <<5000005, 100>> }
IOF_DATE == NextMonthDate(START_DATE)

\* user 1 holds VGBL certificates 1 and 2 and PGBL certificate 3, and cash
\* enough for every contribution
InitIof ==
    /\ nav = [f \in Funds |-> IF f = 1 THEN QInt(2) ELSE QOne]
    /\ certs = InitCerts
    /\ lots = <<>>
    /\ holdings = [c \in Certs |-> [f \in Funds |-> QZero]]
    /\ allocs = InitAllocs
    /\ cash = [u \in Users |-> IF u = 1 THEN QInt(1000000) ELSE QInt(100)]
    /\ withdrawals = <<>>
    /\ workload = "lots"
    /\ reqs = <<>>
    /\ \E declared \in IofDeclared :
         /\ config = [iof_declared |-> [u \in Users |-> IF u = 1 THEN declared
                                                        ELSE QZero],
                      portin_gain_pct |-> <<4, 5>>,
                      portin_schedule |-> PORTIN_SCHEDULE,
                      iof_amount_column |-> TRUE]
         /\ probe = [kind |-> "iof", declared |-> declared, n |-> 0,
                     gross |-> QZero, charged |-> QZero, last |-> QZero,
                     before |-> QZero, vgbl |-> FALSE]
    /\ simMonth = 0
    /\ simDate = START_DATE
    /\ pc = "idle"
    /\ pending = <<>>
    /\ stepsLeft = 0
    /\ log = <<>>
    /\ ops = 0
    /\ stepsBegun = 0

\* the excise withheld on the lot just created: gross amount less net amount
IofOfLastLot(S) == QSub(S.lots[Len(S.lots)].gross_amount, S.lots[Len(S.lots)].amount)

\* the ledger after the contribution, and the account kept of it
IofSettle(r, a, vgbl, iof) ==
    /\ ~r.raised
    /\ r.S.reqs[Len(r.S.reqs)].status = "completed"
    /\ certs' = r.S.certs
    /\ lots' = r.S.lots
    /\ holdings' = r.S.holdings
    /\ allocs' = r.S.allocs
    /\ cash' = r.S.cash
    /\ withdrawals' = r.S.withdrawals
    /\ reqs' = r.S.reqs
    /\ probe' = [kind |-> "iof", declared |-> probe.declared, n |-> probe.n + 1,
                 gross |-> IF vgbl THEN QAdd(probe.gross, a) ELSE probe.gross,
                 charged |-> QAdd(probe.charged, iof),
                 last |-> iof,
                 before |-> QAdd(probe.declared, probe.gross),
                 vgbl |-> vgbl]

IofExecuted(r, a, vgbl) == IofSettle(r, a, vgbl, IofOfLastLot(r.S))

IofSubmitted(S, a, vgbl) ==
    IofExecuted(execute_contribution(S, Len(S.reqs), IOF_DATE), a, vgbl)

\* a contribution of a to certificate c is submitted (portal.contribute) and
\* executed by the drain (_execute_contribution)
IofContribute(a, c) ==
    /\ probe.kind = "iof"
    /\ probe.n < IofSteps
    /\ IofSubmitted([Store EXCEPT !.reqs = Append(@,
                        Request(Template(1, c, "contribution", [amount |-> a], FALSE),
                                simDate))],
                    a, certs[c].plan_type = "VGBL")
    /\ UNCHANGED <<nav, config, simMonth, simDate, pc, pending, stepsLeft, log,
                   workload, ops, stepsBegun>>

NextIof == \E a \in IofAmounts, c \in {1, 2, 3} : IofContribute(a, c)

SpecIof == InitIof /\ [][NextIof]_vars

IofLimit2026 == QInt(600000)

\* rate x (max(0, before + new - threshold) - max(0, before - threshold))
IofMarginal(before, new) ==
    QMul(<<1, 20>>, QSub(QMax(QZero, QSub(QAdd(before, new), IofLimit2026)),
                         QMax(QZero, QSub(before, IofLimit2026))))

\* rate x max(0, declared + sum of gross contributions - threshold)
IofOnTotal == QMul(<<1, 20>>, QMax(QZero, QSub(QAdd(probe.declared, probe.gross),
                                               IofLimit2026)))

\* the gross amount of the last contribution
IofLastGross == lots[Len(lots)].gross_amount

\* C11 as stated: each VGBL contribution is charged the marginal excise, and
\* the charges of the year add up to rate x max(0, declared + gross - threshold)
\* however the total is split.
C11_IofSplitInvariant ==
    (probe.kind = "iof" /\ probe.n > 0)
    => /\ probe.last = IF probe.vgbl THEN IofMarginal(probe.before, IofLastGross)
                       ELSE QZero
       /\ probe.charged = IofOnTotal

\* C11 amended: each charge is the marginal excise rounded to the cent, so the
\* charges of n contributions add up to rate x max(0, declared + gross -
\* threshold) within n half-cents.
C11_IofSplitWithinCents ==
    (probe.kind = "iof" /\ probe.n > 0)
    => /\ probe.last = IF probe.vgbl
                       THEN round2(IofMarginal(probe.before, IofLastGross))
                       ELSE QZero
       /\ QLe(QAbs(QSub(probe.charged, IofOnTotal)), <<probe.n, 200>>)

\* C11 witness: 550,000 declared and one contribution of 100,000 were charged
\* 2,500, and a second contribution to another VGBL certificate was charged on
\* its whole amount.
C11_Example ==
    /\ probe.kind = "iof"
    /\ probe.declared = QInt(550000)
    /\ probe.n = 2
    /\ probe.gross = QInt(150000)
    /\ probe.charged = QInt(5000)
    /\ probe.last = QInt(2500)
    /\ lots[1].certificate_id # lots[2].certificate_id

(***************************************************************************)
(* The administrator's certificate editor                                  *)
(***************************************************************************)
\* admin.edit_certificate, action 'set_regime'
EditCertificateSetRegime(c, regime) ==
    /\ ops < MaxOps
    /\ regime \in Regimes
    /\ certs' = set_tax_regime(Store, c, regime).certs
    /\ ops' = ops + 1
    /\ UNCHANGED <<nav, lots, holdings, allocs, cash, withdrawals, reqs, config,
                   clock, pc, pending, stepsLeft, log, stepsBegun, bounds>>

\* the portal with its administrator
NextAdmin ==
    \/ Next
    \/ \E c \in Certs, regime \in Regimes : EditCertificateSetRegime(c, regime)

SpecAdmin == Init /\ [][NextAdmin]_vars

\* C12: once a certificate's tax regime is progressive or regressive, no step
\* of the portal changes it.
C12_RegimeIrrevocable ==
    [][\A c \in Certs :
          certs[c].tax_regime # NoRegime => certs'[c].tax_regime = certs[c].tax_regime]_vars

\* C13, in a state: every lot has units_remaining <= units_total and
\* remaining_amount <= gross_amount.
C13_LotWithinTotals ==
    \A i \in DOMAIN lots :
        /\ QLe(lots[i].units_remaining, lots[i].units_total)
        /\ QLe(lots[i].remaining_amount, lots[i].gross_amount)

\* C14: every lot has units_remaining = 0 exactly when remaining_amount = 0.
C14_ZeroTogether ==
    \A i \in DOMAIN lots :
        (lots[i].units_remaining = QZero) <=> (lots[i].remaining_amount = QZero)

(***************************************************************************)
(* A portal that starts with a funded certificate                          *)
(***************************************************************************)
\* the premium basis assumed for an external port-in (admin.settings)
PortinGainPcts == { QZero, <<4, 5>>, QOne }
\* the plan type of certificates 1 and 2
SeededPlans == { "PGBL", "VGBL" }
\* what the clients of a seeded portal ask for
SeededWorkloads == { "basis", "foreign" }

\* seed_data.seed: certificate 1 of user 1 holds one lot of 100 bought at a
\* unit price of 2 and invested in fund 1; certificates 1 and 2 are of one
\* plan type
InitSeeded ==
    /\ nav = [f \in Funds |-> IF f = 1 THEN QInt(2) ELSE QOne]
    /\ \E plan \in SeededPlans :
         certs = [c \in Certs |->
                    IF c = 1 THEN [InitCerts[c] EXCEPT
                                     !.plan_type = plan,
                                     !.unit_supply = QInt(50),
                                     !.vgbl_premium_remaining =
                                         IF plan = "VGBL" THEN QInt(100) ELSE QZero]
                    ELSE IF c = 2 THEN [InitCerts[c] EXCEPT !.plan_type = plan]
                    ELSE InitCerts[c]]
    /\ lots = << [certificate_id |-> 1, amount |-> QInt(100),
                  gross_amount |-> QInt(100), remaining_amount |-> QInt(100),
                  contribution_date |-> SEED_DATE, source_type |-> "contribution",
                  units_total |-> QInt(50), units_remaining |-> QInt(50)] >>
    /\ holdings = [c \in Certs |-> [f \in Funds |->
                      IF c = 1 /\ f = 1 THEN QInt(50) ELSE QZero]]
    /\ allocs = InitAllocs
    /\ cash = [u \in Users |-> IF u = 1 THEN QInt(300) ELSE QInt(100)]
    /\ withdrawals = <<>>
    /\ workload \in SeededWorkloads
    /\ reqs = <<>>
    /\ \E pct \in PortinGainPcts :
          config = [iof_declared |-> [u \in Users |-> QZero],
                    portin_gain_pct |-> pct,
                    portin_schedule |-> PORTIN_SCHEDULE,
                    iof_amount_column |-> TRUE]
    /\ simMonth = 0
    /\ simDate = START_DATE
    /\ pc = "idle"
    /\ pending = <<>>
    /\ stepsLeft = 0
    /\ log = <<>>
    /\ ops = 0
    /\ stepsBegun = 0
    /\ probe = NoProbe

SpecSeeded == InitSeeded /\ [][Next]_vars

\* the certificates a request names: its own and a transfer's other end
NamedCerts(r) ==
    ({r.certificate_id}
       \cup (IF "destination_cert_id" \in DOMAIN r.details
             THEN {r.details.destination_cert_id} ELSE {})) \cap Certs

\* the request names a certificate of another user
Foreign(r) == \E c \in NamedCerts(r) : certs[c].user_id # r.user_id

\* C15: a dispatched request that names a certificate (its own, or a
\* transfer's source or destination) of another user ends failed and changes
\* no lot, holding, certificate field, target allocation, brokerage balance
\* or withdrawal.
C15_ForeignCertificateFails ==
    [][\A rid \in DOMAIN reqs :
          (Dispatches(rid) /\ reqs[rid].type \in ExecutableTypes /\ Foreign(reqs[rid]))
          => /\ reqs'[rid].status = "failed"
             /\ UNCHANGED ledger]_vars

\* C15 witness: user 2's withdrawal from and transfer into certificate 1 of
\* user 1 have failed, and the funded certificate is as it was seeded.
C15_ForeignFailed ==
    /\ workload = "foreign"
    /\ \E i \in DOMAIN reqs, j \in DOMAIN reqs :
         /\ reqs[i].user_id = 2 /\ reqs[i].certificate_id = 1
         /\ reqs[i].type = "withdrawal" /\ reqs[i].status = "failed"
         /\ reqs[j].type = "transfer_internal" /\ reqs[j].status = "failed"
         /\ reqs[j].certificate_id = 4
    /\ certs[1].unit_supply = QInt(50)
    /\ lots[1].units_remaining = QInt(50)
    /\ cash[2] = QInt(100)
    /\ withdrawals = <<>>

\* C16: a call of evolve_time advances the clock by exactly the months asked
\* for, one at a time: the month counter moves by 1 and the date by one
\* calendar month at the end of a step, after the step's NAV update and whole
\* drain, and the call returns only at the end of its last step.
C16_ExactlyKMonths ==
    [][/\ simMonth' \in {simMonth, simMonth + 1}
       /\ simMonth' = simMonth => simDate' = simDate
       /\ simMonth' = simMonth + 1
            => /\ simDate' = NextMonthDate(simDate)
               /\ pc = "drain" /\ pending = <<>>
               /\ stepsLeft' = stepsLeft - 1
       /\ (pc # "idle" /\ pc' = "idle")
            => /\ simMonth' = simMonth + 1
               /\ stepsLeft' = 0]_vars

\* C17: a request is executed at most once: the drain never dispatches a
\* request that has ended failed or completed, and a request that ends failed
\* has applied no effect to the ledger.
C17_AtMostOnce ==
    [][\A rid \in DOMAIN reqs :
          (Dispatches(rid) /\ reqs[rid].type \in ExecutableTypes)
          => /\ reqs[rid].status \notin {"failed", "completed"}
             /\ reqs'[rid].status = "failed" => UNCHANGED ledger]_vars

\* C18: the drain empties the queue: the batch holds every request pending at
\* the start of the drain, and each of them, whatever its type, has left the
\* pending status when the drain has passed it.
C18_DrainEmptiesQueue ==
    [][/\ BatchRead => \A rid \in DOMAIN reqs :
                          reqs[rid].status = "pending"
                          => \E i \in DOMAIN pending' : pending'[i] = rid
       /\ \A rid \in DOMAIN reqs :
             (Dispatches(rid) /\ reqs[rid].status = "pending")
             => reqs'[rid].status \in {"completed", "failed"}]_vars

\* C19: the event log of the month has one line for every request the drain
\* processes: a dispatch that changes the status of its request appends
\* exactly one event, which names that request.
C19_EveryRequestLogged ==
    [][\A rid \in DOMAIN reqs :
          (Dispatches(rid) /\ reqs'[rid].status # reqs[rid].status)
          => log' = Append(log, [kind |-> "request", id |-> rid])]_vars

(***************************************************************************)
(* Reconciling a certificate's unit supply with its lots                   *)
(***************************************************************************)
\* a SUM over the units the lots of the certificate were created with
sum_units_total(S, c) ==
    QSumSeq(SeqMap(LAMBDA l : IF l.certificate_id = c THEN l.units_total ELSE QZero,
                   S.lots))

\* SELECT COALESCE(SUM(units_remaining), 0) FROM contributions WHERE certificate_id = c
sum_units_remaining(S, c) ==
    QSumSeq(SeqMap(LAMBDA l : IF l.certificate_id = c THEN l.units_remaining ELSE QZero,
                   S.lots))

\* the UPDATE of reconcile_certificate_units and what it returns
reconcile_write(S, c, old_supply, lot_sum, differs) ==
    [S |-> IF differs THEN [S EXCEPT !.certs[c].unit_supply = lot_sum] ELSE S,
     old_supply |-> old_supply, new_supply |-> lot_sum, wrote |-> differs]

reconcile_compare(S, c, old_supply, lot_sum) ==
    reconcile_write(S, c, old_supply, lot_sum,
                    GtInv(QAbs(QSub(old_supply, lot_sum)), EPS_RECONCILE))

\* models.reconcile_certificate_units
reconcile_certificate_units(S, c) ==
    reconcile_compare(S, c, S.certs[c].unit_supply,
                      IF LtInv(sum_units_remaining(S, c), EPS_UNITS) THEN QZero
                      ELSE sum_units_remaining(S, c))

\* calls of reconcile on one certificate
ReconcileCalls == 2

ReconcileLot(c, total, remaining) ==
    [certificate_id |-> c, amount |-> QMul(total, QInt(2)),
     gross_amount |-> QMul(total, QInt(2)),
     remaining_amount |-> QMul(remaining, QInt(2)),
     contribution_date |-> SEED_DATE, source_type |-> "contribution",
     units_total |-> total, units_remaining |-> remaining]

\* the unit_supply of certificate 1 and the contributions table: in step, off
\* by less and by more than the tolerance, and far off
ReconcileInputs ==
    ({ QZero, <<1, 2000000>>, QInt(30), QInt(80), <<160000001, 2000000>>,
       <<40000001, 500000>>, QInt(99999) }
       \X { <<>>,
            << ReconcileLot(1, QInt(80), QInt(80)) >>,
            << ReconcileLot(1, QInt(50), QInt(50)), ReconcileLot(1, QInt(60), QInt(30)) >>,
            << ReconcileLot(1, QInt(80), QZero) >>,
            << ReconcileLot(2, QInt(80), QInt(80)), ReconcileLot(1, QInt(80), QInt(80)) >> })
    \cup ({ QZero, <<1, 2000000000>>, QOne }
            \X { << ReconcileLot(1, <<1, 2000000000>>, <<1, 2000000000>>) >> })

InitReconcile ==
    /\ nav = [f \in Funds |-> IF f = 1 THEN QInt(2) ELSE QOne]
    /\ \E in \in ReconcileInputs :
         /\ certs = [InitCerts EXCEPT ![1].unit_supply = in[1]]
         /\ lots = in[2]
         /\ probe = [kind |-> "reconcile", supply |-> in[1], lots |-> in[2],
                     calls |-> <<>>]
    /\ holdings = [c \in Certs |-> [f \in Funds |-> QZero]]
    /\ allocs = InitAllocs
    /\ cash = [u \in Users |-> IF u = 1 THEN QInt(300) ELSE QInt(100)]
    /\ withdrawals = <<>>
    /\ workload = "lots"
    /\ reqs = <<>>
    /\ config = [iof_declared |-> [u \in Users |-> QZero],
                 portin_gain_pct |-> <<4, 5>>,
                 portin_schedule |-> PORTIN_SCHEDULE,
                 iof_amount_column |-> TRUE]
    /\ simMonth = 0
    /\ simDate = START_DATE
    /\ pc = "idle"
    /\ pending = <<>>
    /\ stepsLeft = 0
    /\ log = <<>>
    /\ ops = 0
    /\ stepsBegun = 0

ReconcileReturned(r) ==
    /\ certs' = r.S.certs
    /\ lots' = r.S.lots
    /\ probe' = [probe EXCEPT !.calls = Append(@, [old_supply |-> r.old_supply,
                                                   new_supply |-> r.new_supply,
                                                   wrote |-> r.wrote])]

\* admin.edit_certificate, action 'reconcile_units', on certificate 1
EditCertificateReconcile ==
    /\ probe.kind = "reconcile"
    /\ Len(probe.calls) < ReconcileCalls
    /\ ReconcileReturned(reconcile_certificate_units(Store, 1))
    /\ UNCHANGED <<nav, holdings, allocs, cash, withdrawals, reqs, config, simMonth,
                   simDate, pc, pending, stepsLeft, log, workload, ops, stepsBegun>>

NextReconcile == EditCertificateReconcile

SpecReconcile == InitReconcile /\ [][NextReconcile]_vars

\* the calls of reconcile made so far
Reconciled == IF probe.kind = "reconcile" THEN DOMAIN probe.calls ELSE {}

\* C20 as stated: reconcile returns the old supply and the sum of the lots'
\* units_remaining, leaves unit_supply within 1e-6 of that sum, changes no lot,
\* and a second call returns equal old and new values and writes nothing.
C20_ReconcileIdempotent ==
    \A i \in Reconciled :
        /\ probe.calls[i].new_supply = LotUnits(1)
        /\ probe.calls[1].old_supply = probe.supply
        /\ LeInv(QAbs(QSub(certs[1].unit_supply, LotUnits(1))), EPS_RECONCILE)
        /\ lots = probe.lots
        /\ i > 1 => /\ probe.calls[i].old_supply = probe.calls[i].new_supply
                    /\ ~probe.calls[i].wrote

\* C20 amended: the sum is returned as 0 when it is below 1e-9, and a second
\* call returns old and new values that are within 1e-6 of each other, equal
\* when the first call wrote.
C20_ReconcileWithinEpsilon ==
    \A i \in Reconciled :
        /\ probe.calls[i].new_supply =
               IF LtInv(LotUnits(1), EPS_UNITS) THEN QZero ELSE LotUnits(1)
        /\ probe.calls[1].old_supply = probe.supply
        /\ probe.calls[1].wrote
             <=> GtInv(QAbs(QSub(probe.supply, probe.calls[1].new_supply)),
                       EPS_RECONCILE)
        /\ LeInv(QAbs(QSub(certs[1].unit_supply, LotUnits(1))), EPS_RECONCILE)
        /\ lots = probe.lots
        /\ i > 1 => /\ LeInv(QAbs(QSub(probe.calls[i].old_supply,
                                       probe.calls[i].new_supply)), EPS_RECONCILE)
                    /\ probe.calls[1].wrote
                         => probe.calls[i].old_supply = probe.calls[i].new_supply
                    /\ ~probe.calls[i].wrote

\* C20 witness: a unit_supply of 99999 over two lots of 50 and 30 units was
\* rewritten to 80 by the first call and left alone by the second.
C20_BrokenSupplyFixed ==
    /\ probe.kind = "reconcile"
    /\ probe.supply = QInt(99999)
    /\ Len(probe.lots) = 2
    /\ Len(probe.calls) = 2
    /\ probe.calls[1] = [old_supply |-> QInt(99999), new_supply |-> QInt(80),
                         wrote |-> TRUE]
    /\ probe.calls[2] = [old_supply |-> QInt(80), new_supply |-> QInt(80),
                         wrote |-> FALSE]
    /\ certs[1].unit_supply = QInt(80)

\* the stored allocations of a certificate are empty, or percentages in
\* (0, 100] that sum to 100 within 0.01
AllocationsValid(a) ==
    \/ \A f \in Funds : a[f] = QZero
    \/ /\ \A f \in Funds : QGe(a[f], QZero) /\ QLe(a[f], QInt(100))
       /\ QLe(QAbs(QSub(SumOver(a, Funds), QInt(100))), <<1, 100>>)

\* the positive percentages a fund_swap request asks for do not sum to 100
\* within 0.01
SwapSumsWrong(r) ==
    /\ r.type = "fund_swap"
    /\ "new_allocations" \in DOMAIN r.details
    /\ QGt(QAbs(QSub(QSumSeq(SeqMap(PctOf, SelectSeq(r.details.new_allocations,
                                                     LAMBDA a : QPos(a[2])))),
                     QInt(100))),
           <<1, 100>>)

\* C21: every certificate's stored target allocations are empty or sum to 100
\* within 0.01, and a fund_swap whose positive percentages do not sum to 100
\* within 0.01 ends failed and leaves the stored allocations and the holdings
\* as they were.
C21_AllocationsSumTo100 ==
    [][/\ \A c \in Certs : AllocationsValid(allocs[c]) /\ AllocationsValid(allocs'[c])
       /\ \A rid \in DOMAIN reqs :
             (Dispatches(rid) /\ SwapSumsWrong(reqs[rid]))
             => /\ reqs'[rid].status = "failed"
                /\ UNCHANGED <<allocs, holdings>>]_vars

\* C21 witness: a fund swap to 60% + 30% on the funded certificate 1 has
\* failed, and the certificate still routes 100% to fund 1 and holds it.
C21_BadSwapRejected ==
    /\ \E rid \in DOMAIN reqs :
         /\ SwapSumsWrong(reqs[rid])
         /\ reqs[rid].certificate_id = 1
         /\ reqs[rid].status = "failed"
    /\ allocs[1] = InitAllocs[1]
    /\ QPos(holdings[1][1])
    /\ simMonth >= 1

(***************************************************************************)
(* FIFO consumption of more units than the lots hold                       *)
(***************************************************************************)
\* units asked for beyond the 150 units of the two lots: none, within the
\* tolerance of 1e-4, and beyond it
ShortAsks == { QInt(50), QInt(150), <<1500001, 10000>>, <<750001, 5000>>,
               <<300001, 2000>>, QInt(151), QInt(400) }
\* who asks
ShortRequests ==
    { Template(u, 1, type, [amount |-> QInt(10)], FALSE) :
        u \in Users, type \in {"withdrawal", "transfer_external_out"} }

\* certificate 1 of user 1 holds two lots of 100 and 50 units
InitShort ==
    /\ Parked
    /\ \E k \in ShortAsks, t \in ShortRequests, order \in LotOrders :
         probe = [kind |-> "short_in",
                  L |-> ProbeLots(<<QInt(100), QInt(100)>>, <<QInt(50), QInt(100)>>, order),
                  k |-> k, request |-> Request(t, START_DATE)]

\* what models.consume_lots_fifo and _verify_cert_ownership answer
ShortAnswered(r, owner_error) ==
    probe' = [kind |-> "short_out", L |-> probe.L, k |-> probe.k,
              request |-> probe.request, after |-> r.lots,
              fifo_raises |-> r.raises, fifo_error |-> r.error,
              ownership_error |-> owner_error]

EvalShort ==
    /\ probe.kind = "short_in"
    /\ ShortAnswered(consume_lots_fifo(probe.L, 1, probe.k),
                     ownership_error([Store EXCEPT !.reqs = <<probe.request>>], 1, 1))
    /\ UNCHANGED portal

NextShort == EvalShort

SpecShort == InitShort /\ [][NextShort]_vars

\* the units the lots of the probe hold
ShortAvailable == QAdd(probe.L[1].units_remaining, probe.L[2].units_remaining)

\* C22: consume_fifo raises whenever the units asked for exceed the lots'
\* units_remaining by more than 1e-4, and only then, and its error is of
\* another class than the error of a user-input failure such as an ownership
\* mismatch.
C22_DistinctFifoError ==
    probe.kind = "short_out"
    => /\ probe.fifo_raises
            <=> GtInv(QSub(probe.k, ShortAvailable), EPS_FIFO)
       /\ probe.fifo_raises => probe.fifo_error # NoError
       /\ (probe.fifo_raises /\ probe.ownership_error # NoError)
            => probe.fifo_error # probe.ownership_error

(***************************************************************************)
(* C23: the monthly compounding of the NAVs                                *)
(***************************************************************************)
\* NAV_{t+1} = NAV_t * (1 + return[t mod len(returns)]), from the initial NAV
RECURSIVE CompoundedNav(_, _)
CompoundedNav(f, month) ==
    IF month = 0 THEN (IF f = 1 THEN QInt(2) ELSE QOne)
    ELSE IF FUND_RETURNS[f] = <<>> THEN CompoundedNav(f, month - 1)
    ELSE QMul(CompoundedNav(f, month - 1), QAdd(QOne, FUND_RETURNS[f][((month - 1) % Len(FUND_RETURNS[f])) + 1]))

\* C23: every step from month n to month n+1 ends with each NAV multiplied
\* exactly once by 1 + return[n mod len(returns)]: when the month advances the
\* NAVs are the compounded ones of the new month, the update has happened
\* before the first request of the month is dispatched, and no executor changes
\* a NAV.
C23_NavOncePerMonth ==
    [][/\ simMonth' = simMonth + 1 => \A f \in Funds : nav'[f] = CompoundedNav(f, simMonth')
       /\ \A rid \in DOMAIN reqs : Dispatches(rid) => nav' = nav]_vars

(***************************************************************************)
(* C24: the unit price of a certificate                                    *)
(***************************************************************************)
PriceSupplies == {QZero, QInt(50), QInt(100), <<100, 3>>}
PriceUnits1 == {QZero, QInt(25), QInt(100)}
PriceUnits2 == {QZero, QInt(10), <<1, 3>>}
PriceNavs1 == {<<1, 2>>, QOne, QInt(2)}
PriceNavs2 == {QOne, <<3, 2>>}
\* supplies and holdings around the 1e-9 threshold
DustSupplies == {<<1, 1000000000>>, <<1, 500000000>>}
DustUnits == {QZero, <<1, 500000000>>}

PriceInputs ==
    [unit_supply : PriceSupplies, h1 : PriceUnits1, h2 : PriceUnits2, n1 : PriceNavs1, n2 : PriceNavs2]
    \cup [unit_supply : DustSupplies, h1 : DustUnits, h2 : {QZero}, n1 : PriceNavs1, n2 : {QOne}]

\* certificate 1 with the unit_supply, the holdings and the fund NAVs of the
\* input: the ledger an administrator's add_contribution and set_holding leave
InitPrice ==
    \E in \in PriceInputs :
      /\ nav = [f \in Funds |-> IF f = 1 THEN in.n1 ELSE in.n2]
      /\ certs = [InitCerts EXCEPT ![1].unit_supply = in.unit_supply]
      /\ lots = <<>>
      /\ holdings = [c \in Certs |-> [f \in Funds |->
                        IF c # 1 THEN QZero ELSE IF f = 1 THEN in.h1 ELSE in.h2]]
      /\ allocs = InitAllocs
      /\ cash = [u \in Users |-> IF u = 1 THEN QInt(300) ELSE QInt(100)]
      /\ withdrawals = <<>>
      /\ workload = "lots"
      /\ reqs = <<>>
      /\ config = [iof_declared |-> [u \in Users |-> QZero],
                   portin_gain_pct |-> <<4, 5>>,
                   portin_schedule |-> PORTIN_SCHEDULE,
                   iof_amount_column |-> TRUE]
      /\ simMonth = 0
      /\ simDate = START_DATE
      /\ pc = "idle"
      /\ pending = <<>>
      /\ stepsLeft = 0
      /\ log = <<>>
      /\ ops = 0
      /\ stepsBegun = 0
      /\ probe = [kind |-> "price_in", in |-> in]

\* models.get_certificate_unit_price of certificate 1
EvalPrice ==
    /\ probe.kind = "price_in"
    /\ probe' = [kind |-> "price_out", in |-> probe.in,
                 unit_price |-> get_certificate_unit_price(Store, 1)]
    /\ UNCHANGED portal

NextPrice == EvalPrice

SpecPrice == InitPrice /\ [][NextPrice]_vars

\* the sum over the holdings of units x fund NAV
PriceTotalValue == QAdd(QMul(probe.in.h1, probe.in.n1), QMul(probe.in.h2, probe.in.n2))

FullWithdrawal(rid) ==
    /\ reqs[rid].type = "withdrawal"
    /\ "amount" \in DOMAIN reqs[rid].details
    /\ QPos(get_certificate_total_value(Store, reqs[rid].certificate_id))
    /\ QGe(reqs[rid].details.amount, get_certificate_total_value(Store, reqs[rid].certificate_id))

Emptied(c) ==
    /\ \A f \in Funds : holdings'[c][f] = QZero
    /\ certs'[c].unit_supply = QZero
    /\ \A i \in DOMAIN lots' : lots'[i].certificate_id = c => lots'[i].units_remaining = QZero

\* C25: a withdrawal of at least the certificate's positive total value is
\* clamped to that value and, when it completes, empties the certificate: no
\* holding is left, unit_supply is 0 and every lot has units_remaining 0.
C25_FullWithdrawalEmpties ==
    [][\A rid \in DOMAIN reqs :
          (Dispatches(rid) /\ FullWithdrawal(rid) /\ reqs[rid].status = "pending"
                           /\ reqs'[rid].status = "completed")
          => /\ Len(withdrawals') = Len(withdrawals) + 1
             /\ withdrawals'[Len(withdrawals')].gross_amount
                  = get_certificate_total_value(Store, reqs[rid].certificate_id)
             /\ Emptied(reqs[rid].certificate_id)]_vars

\* a withdrawal of 250 has completed for less than 250 and has emptied its
\* certificate, whose lots are all consumed
C25_ClampedAndEmptied ==
    \E i \in DOMAIN reqs :
        /\ reqs[i].type = "withdrawal" /\ reqs[i].status = "completed"
        /\ reqs[i].details.amount = QInt(250)
        /\ withdrawals # <<>>
        /\ withdrawals[Len(withdrawals)].certificate_id = reqs[i].certificate_id
        /\ QLt(withdrawals[Len(withdrawals)].gross_amount, QInt(250))
        /\ certs[reqs[i].certificate_id].unit_supply = QZero
        /\ \A f \in Funds : holdings[reqs[i].certificate_id][f] = QZero
        /\ \E j \in DOMAIN lots : lots[j].certificate_id = reqs[i].certificate_id
        /\ \A j \in DOMAIN lots : lots[j].certificate_id = reqs[i].certificate_id
                                  => lots[j].units_remaining = QZero

(***************************************************************************)
(* Transfers between the certificates of one owner                         *)
(***************************************************************************)
\* a legacy portability pair from certificate 1 to certificate 2
PortabilityPair(details) ==
    << Request(Template(1, 1, "portability_out", details, FALSE), START_DATE),
       Request(Template(1, 2, "portability_in", [source_cert_id |-> 1], FALSE), START_DATE) >>

TransferWorkloads == { "unrouted", "regimes", "dust", "portin", "portability" }
\* the port-in schedules of the workload portin: the default, three tranches
\* of 33.333%, two tranches that sum to 90%, one tranche of the day
PortinSchedules ==
    { PORTIN_SCHEDULE,
      << <<Q(33333, 1000), 1>>, <<Q(33333, 1000), 5>>, <<Q(33333, 1000), 11>> >>,
      << <<QInt(50), 1>>, <<QInt(40), 5>> >>,
      << <<QInt(100), 0>> >> }
StartSchedules(w) == IF w = "portin" THEN PortinSchedules ELSE {PORTIN_SCHEDULE}
StartGainPcts(w) == IF w = "portin" THEN PortinGainPcts ELSE {<<4, 5>>}
\* the tax regimes certificates 1 and 2 start with in the workload regimes
StartRegimes(w) == IF w = "regimes" THEN Regimes \cup {NoRegime} ELSE {NoRegime}

\* certificate 1 of user 1 holds one lot of 100 bought at a unit price of 2
\* and invested in fund 1; certificate 2 is a new certificate of the same
\* owner and plan type, without target allocations in the workload unrouted
InitTransfers ==
    /\ nav = [f \in Funds |-> IF f = 1 THEN QInt(2) ELSE QOne]
    /\ workload \in TransferWorkloads
    /\ \E plan \in SeededPlans, r1 \in StartRegimes(workload), r2 \in StartRegimes(workload) :
         certs = [c \in Certs |->
                    IF c = 1 THEN [InitCerts[c] EXCEPT
                                     !.plan_type = plan,
                                     !.tax_regime = r1,
                                     !.unit_supply = QInt(50),
                                     !.vgbl_premium_remaining =
                                         IF plan = "VGBL" THEN QInt(100) ELSE QZero]
                    ELSE IF c = 2 THEN [InitCerts[c] EXCEPT !.plan_type = plan,
                                                           !.tax_regime = r2]
                    ELSE InitCerts[c]]
    /\ lots = << [certificate_id |-> 1, amount |-> QInt(100),
                  gross_amount |-> QInt(100), remaining_amount |-> QInt(100),
                  contribution_date |-> SEED_DATE, source_type |-> "contribution",
                  units_total |-> QInt(50), units_remaining |-> QInt(50)] >>
    /\ holdings = [c \in Certs |-> [f \in Funds |->
                      IF c = 1 /\ f = 1 THEN QInt(50) ELSE QZero]]
    /\ allocs = IF workload = "unrouted"
                THEN [InitAllocs EXCEPT ![2] = [f \in Funds |-> QZero]]
                ELSE InitAllocs
    /\ cash = [u \in Users |-> IF u = 1 THEN QInt(300) ELSE QInt(100)]
    /\ withdrawals = <<>>
    /\ reqs = IF workload \in {"unrouted", "portability"}
              THEN PortabilityPair([destination_cert_id |-> 2, amount |-> QInt(20)])
              ELSE <<>>
    /\ \E col \in BOOLEAN, pct \in StartGainPcts(workload), schedule \in StartSchedules(workload) :
          config = [iof_declared |-> [u \in Users |-> QZero],
                    portin_gain_pct |-> pct,
                    portin_schedule |-> schedule,
                    iof_amount_column |-> col]
    /\ simMonth = 0
    /\ simDate = START_DATE
    /\ pc = "idle"
    /\ pending = <<>>
    /\ stepsLeft = 0
    /\ log = <<>>
    /\ ops = 0
    /\ stepsBegun = 0
    /\ probe = NoProbe

SpecTransfers == InitTransfers /\ [][Next]_vars

InflowTypes == {"contribution", "transfer_internal", "portability_out", "transfer_external_in"}

\* the certificate an inflow request invests in
Destination(r) ==
    IF r.type \in {"transfer_internal", "portability_out"}
    THEN Get(r.details, "destination_cert_id", NoCert)
    ELSE r.certificate_id

Unrouted(r) ==
    /\ r.type \in InflowTypes
    /\ json_ok(r.details)
    /\ Destination(r) \in Certs
    /\ get_target_allocations(Store, Destination(r)) = {}

\* C26: an inflow request whose destination certificate has no target
\* allocation ends failed and invests nothing: lots, certificates (unit_supply,
\* premium_remaining), holdings and brokerage cash are as they were, at the
\* source of a transfer as well.
C26_UnroutedInflowFails ==
    [][\A rid \in DOMAIN reqs :
          (Dispatches(rid) /\ Unrouted(reqs[rid]))
          => /\ reqs'[rid].status = "failed"
             /\ UNCHANGED <<lots, certs, holdings, cash, allocs, withdrawals>>]_vars

\* the four kinds of inflow have failed on the unrouted certificate 2 while
\* certificate 1 still holds what it held
C26_AllInflowsFailed ==
    /\ workload = "unrouted"
    /\ \A type \in InflowTypes :
          \E i \in DOMAIN reqs : /\ reqs[i].type = type /\ reqs[i].status = "failed"
                                  /\ Destination(reqs[i]) = 2
    /\ Len(lots) = 1
    /\ certs[2].unit_supply = QZero
    /\ cash[1] = QInt(300)
    /\ simMonth >= 1

(***************************************************************************)
(* C27: plan types and tax regimes of an internal transfer                 *)
(***************************************************************************)
\* request rid is an internal transfer between two existing certificates
InternalTransfer(rid) ==
    /\ reqs[rid].type = "transfer_internal"
    /\ json_ok(reqs[rid].details)
    /\ reqs[rid].certificate_id \in Certs
    /\ Destination(reqs[rid]) \in Certs

Incompatible(src, dst) ==
    \/ certs[src].plan_type # certs[dst].plan_type
    \/ /\ certs[src].tax_regime # NoRegime
       /\ certs[dst].tax_regime # NoRegime
       /\ certs[src].tax_regime # certs[dst].tax_regime

\* C27: an internal transfer between certificates of different plan types, or
\* of different tax regimes when both are set, ends failed; one from a
\* certificate with a regime to one without leaves, when it completes, the
\* destination with the source's regime; no transfer changes the regime of its
\* source.
C27_TransferCompatibility ==
    [][\A rid \in DOMAIN reqs :
          (Dispatches(rid) /\ InternalTransfer(rid)) =>
             LET src == reqs[rid].certificate_id
                 dst == Destination(reqs[rid])
             IN  /\ Incompatible(src, dst) => reqs'[rid].status = "failed"
                 /\ (/\ certs[src].tax_regime # NoRegime
                     /\ certs[dst].tax_regime = NoRegime
                     /\ reqs'[rid].status = "completed")
                    => certs'[dst].tax_regime = certs[src].tax_regime
                 /\ certs'[src].tax_regime = certs[src].tax_regime]_vars

\* a transfer has completed into certificate 2, which has taken the regime
\* certificate 1 started with, and a transfer to another plan type has failed
C27_RegimeInherited ==
    /\ workload = "regimes"
    /\ certs[1].tax_regime = "regressive" /\ certs[2].tax_regime = "regressive"
    /\ certs[1].plan_type = "VGBL" /\ certs[3].tax_regime = NoRegime
    /\ Len(lots) = 2 /\ lots[2].certificate_id = 2
    /\ \E i, j \in DOMAIN reqs :
          /\ reqs[i].type = "transfer_internal" /\ reqs[i].status = "completed"
          /\ Destination(reqs[i]) = 2
          /\ reqs[j].type = "transfer_internal" /\ reqs[j].status = "failed"
          /\ Destination(reqs[j]) = 3

(***************************************************************************)
(* C28: the lots an internal transfer creates                              *)
(***************************************************************************)
\* the lots of certificate c that the step consumes from
ConsumedLots(c) ==
    {i \in DOMAIN lots : /\ lots[i].certificate_id = c
                         /\ QLt(lots'[i].units_remaining, lots[i].units_remaining)}
\* the lots that the step creates
CreatedLots == {i \in DOMAIN lots' : i > Len(lots)}

CreatedUnits == QSumSeq(SeqMap(LAMBDA l : l.units_total, SubSeq(lots', Len(lots) + 1, Len(lots'))))

\* C28: after a completed internal transfer the lots created are lots of the
\* destination of kind transfer_internal, one per consumed source lot and
\* carrying its creation date, and their units sum to the increase of the
\* destination's unit_supply.
C28_TransferKeepsLotDates ==
    [][\A rid \in DOMAIN reqs :
          (Dispatches(rid) /\ InternalTransfer(rid) /\ reqs'[rid].status = "completed") =>
             LET src == reqs[rid].certificate_id
                 dst == Destination(reqs[rid])
             IN  /\ \A i \in CreatedLots :
                       /\ lots'[i].certificate_id = dst
                       /\ lots'[i].source_type = "transfer_internal"
                 /\ Cardinality(CreatedLots) = Cardinality(ConsumedLots(src))
                 /\ \A d \in {lots[i].contribution_date : i \in DOMAIN lots} :
                       Cardinality({i \in CreatedLots : lots'[i].contribution_date = d})
                         = Cardinality({i \in ConsumedLots(src) : lots[i].contribution_date = d})
                 /\ LeInv(QAbs(QSub(CreatedUnits,
                                    QSub(certs'[dst].unit_supply, certs[dst].unit_supply))),
                          EPS_RECONCILE)]_vars

(***************************************************************************)
(* C29: the external transfer-in                                           *)
(***************************************************************************)
SchedulePct == QSumSeq(SeqMap(LAMBDA t : t[1], config.portin_schedule))

\* the lots the step creates are the tranches of the schedule, in its order
TranchesCreated(c) ==
    /\ Len(lots') = Len(lots) + Len(config.portin_schedule)
    /\ \A k \in DOMAIN config.portin_schedule :
          /\ lots'[Len(lots) + k].certificate_id = c
          /\ lots'[Len(lots) + k].source_type = "transfer_external"
          /\ lots'[Len(lots) + k].contribution_date
               = AddYears(current_date, -config.portin_schedule[k][2])

\* C29: a completed external transfer-in of A into a VGBL certificate raises
\* its total value by A and its premium_remaining by A times the configured
\* fraction, and creates one lot of kind transfer_external per tranche of the
\* schedule, dated years_ago years before the execution date, whose units sum
\* to the increase of unit_supply; with a schedule whose percentages do not sum
\* to 100 within 0.01 the request fails.
C29_ExternalTransferIn ==
    [][\A rid \in DOMAIN reqs :
          (/\ Dispatches(rid)
           /\ reqs[rid].type = "transfer_external_in"
           /\ reqs[rid].certificate_id \in Certs
           /\ certs[reqs[rid].certificate_id].plan_type = "VGBL") =>
             LET c == reqs[rid].certificate_id
                 A == reqs[rid].details.amount
             IN  /\ QGt(QAbs(QSub(SchedulePct, QInt(100))), <<1, 100>>)
                      => reqs'[rid].status = "failed"
                 /\ reqs'[rid].status = "completed" =>
                      /\ get_certificate_total_value([holdings |-> holdings'], c)
                           = QAdd(get_certificate_total_value(Store, c), A)
                      /\ certs'[c].vgbl_premium_remaining
                           = QAdd(certs[c].vgbl_premium_remaining,
                                  QMul(A, config.portin_gain_pct))
                      /\ TranchesCreated(c)
                      /\ LeInv(QAbs(QSub(CreatedUnits,
                                         QSub(certs'[c].unit_supply, certs[c].unit_supply))),
                               EPS_RECONCILE)]_vars

(***************************************************************************)
(* C30: the legacy portability                                             *)
(***************************************************************************)
\* request rid is a portability_out that meets every precondition
Portable(rid) ==
    /\ reqs[rid].type = "portability_out"
    /\ json_ok(reqs[rid].details)
    /\ reqs[rid].certificate_id \in Certs
    /\ Destination(reqs[rid]) \in Certs \ {reqs[rid].certificate_id}
    /\ certs[reqs[rid].certificate_id].user_id = reqs[rid].user_id
    /\ certs[Destination(reqs[rid])].user_id = reqs[rid].user_id
    /\ ~Incompatible(reqs[rid].certificate_id, Destination(reqs[rid]))
    /\ QPos(get_certificate_total_value(Store, reqs[rid].certificate_id))
    /\ QPos(Get(reqs[rid].details, "amount", QOne))
    /\ QPos(LotUnits(reqs[rid].certificate_id))
    /\ get_target_allocations(Store, Destination(reqs[rid])) # {}

\* C30: a legacy portability_out between two certificates of one owner and
\* plan type with compatible regimes, from a source with positive value and
\* lots to a destination with target allocations, ends completed: source lots
\* are consumed, a lot with the original date is created at the destination
\* for each, the destination is worth more, and the matching pending
\* portability_in requests are completed with it.
C30_PortabilityCompletes ==
    [][\A rid \in DOMAIN reqs :
          (Dispatches(rid) /\ Portable(rid)) =>
             LET src == reqs[rid].certificate_id
                 dst == Destination(reqs[rid])
             IN  /\ reqs'[rid].status = "completed"
                 /\ ConsumedLots(src) # {}
                 /\ Cardinality(CreatedLots) = Cardinality(ConsumedLots(src))
                 /\ \A i \in CreatedLots :
                       /\ lots'[i].certificate_id = dst
                       /\ \E j \in ConsumedLots(src) :
                             lots'[i].contribution_date = lots[j].contribution_date
                 /\ QGt(get_certificate_total_value([holdings |-> holdings'], dst),
                        get_certificate_total_value(Store, dst))
                 /\ \A i \in matching_portability_in(Store, src, dst) :
                       reqs'[i].status = "completed"]_vars

(***************************************************************************)
(* C31: the tax regime of a withdrawal                                     *)
(***************************************************************************)
\* C31: no withdrawal completes on a certificate whose tax regime is unset at
\* the end of the request: after a completed withdrawal the certificate's
\* regime is progressive or regressive, and when it was unset before, it is
\* the valid regime the request carries.
C31_WithdrawalNeedsRegime ==
    [][\A rid \in DOMAIN reqs :
          (/\ Dispatches(rid)
           /\ reqs[rid].type = "withdrawal"
           /\ reqs[rid].certificate_id \in Certs
           /\ reqs'[rid].status = "completed") =>
             LET c == reqs[rid].certificate_id
             IN  /\ certs'[c].tax_regime \in Regimes
                 /\ certs[c].tax_regime = NoRegime =>
                      /\ Get(reqs[rid].details, "tax_regime", NoRegime) \in Regimes
                      /\ certs'[c].tax_regime = reqs[rid].details.tax_regime
                 /\ certs[c].tax_regime # NoRegime =>
                      certs'[c].tax_regime = certs[c].tax_regime]_vars

\* a withdrawal without a regime has failed on a certificate that had none,
\* and a later one has completed and stored the regime it carried
C31_RegimeStoredByWithdrawal ==
    \E i, j \in DOMAIN reqs :
        /\ reqs[i].type = "withdrawal" /\ reqs[i].status = "failed"
        /\ "tax_regime" \notin DOMAIN reqs[i].details
        /\ reqs[j].type = "withdrawal" /\ reqs[j].status = "completed"
        /\ reqs[j].certificate_id = reqs[i].certificate_id
        /\ "tax_regime" \in DOMAIN reqs[j].details
        /\ certs[reqs[j].certificate_id].tax_regime = reqs[j].details.tax_regime
        /\ Len(withdrawals) = 1

(***************************************************************************)
(* C32: what a completed withdrawal moves                                  *)
(***************************************************************************)
\* request rid is a withdrawal that the step completes
WithdrawalCompletes(rid) ==
    /\ Dispatches(rid)
    /\ reqs[rid].type = "withdrawal"
    /\ reqs[rid].certificate_id \in Certs
    /\ reqs'[rid].status = "completed"
    /\ Len(withdrawals') = Len(withdrawals) + 1

\* the withdrawal row the step writes
Withdrawn == withdrawals'[Len(withdrawals')]

\* the taxable base of a withdrawal of G: G for a deductible certificate, the
\* earnings share of G for a non-deductible one
TaxableBase(c, G) ==
    IF certs[c].plan_type = "PGBL" THEN G
    ELSE QMul(G, QMax(QZero, QSub(QOne, QDiv(certs[c].vgbl_premium_remaining, get_certificate_total_value(Store, c)))))

\* value, units and cash moved by the withdrawal of G with tax T
WithdrawalMoves(rid, c, G, T) ==
    /\ G = QMin(reqs[rid].details.amount, get_certificate_total_value(Store, c))
    /\ get_certificate_total_value([holdings |-> holdings'], c)
         = QSub(get_certificate_total_value(Store, c), G)
    /\ certs'[c].unit_supply
         = QSub(certs[c].unit_supply, QDiv(G, get_certificate_unit_price(Store, c)))
    /\ cash'[reqs[rid].user_id] = QAdd(cash[reqs[rid].user_id], QSub(G, T))
    /\ QGe(T, QZero) /\ QLe(T, G)

Overdraws(rid) ==
    /\ reqs[rid].type \in {"contribution", "brokerage_withdrawal"}
    /\ json_ok(reqs[rid].details)
    /\ QGt(Get(reqs[rid].details, "amount", QZero), cash[reqs[rid].user_id])

\* C33: no user's brokerage cash is ever negative, and a contribution or a
\* brokerage withdrawal that finds less cash than it asks for, because earlier
\* requests of the drain have used it, ends failed and debits nothing.
C33_CashNeverNegative ==
    [][/\ \A u \in Users : QGe(cash'[u], QZero)
       /\ \A rid \in DOMAIN reqs :
             (Dispatches(rid) /\ Overdraws(rid))
             => /\ reqs'[rid].status = "failed"
                /\ UNCHANGED <<cash, lots, certs, holdings>>]_vars

\* a brokerage withdrawal of 250 and a contribution of 100 were submitted
\* against a balance of 300 on the same day; the first has completed, the
\* second has failed and the balance is 50
C33_SecondRequestFailed ==
    /\ config.iof_amount_column
    /\ cash[1] = QInt(50)
    /\ lots = <<>>
    /\ \E i, j \in DOMAIN reqs :
          /\ reqs[i].type = "brokerage_withdrawal" /\ reqs[i].status = "completed"
          /\ reqs[j].type = "contribution" /\ reqs[j].status = "failed"
          /\ reqs[j].user_id = 1 /\ reqs[i].user_id = 1
          /\ reqs[i].created_date = reqs[j].created_date
          /\ i < j

(***************************************************************************)
(* C34: cancelling or rejecting during a drain                             *)
(***************************************************************************)
\* C34: a request cancelled by its owner or rejected by an admin while it was
\* pending is never executed: when the drain reaches it, also after having
\* read it into its batch, its status stays what the cancel or reject made it
\* and the ledger is left as it was.
C34_WithdrawnRequestNotExecuted ==
    [][\A rid \in DOMAIN reqs :
          (Dispatches(rid) /\ reqs[rid].status \in {"cancelled", "rejected"})
          => /\ reqs'[rid].status = reqs[rid].status
             /\ UNCHANGED ledger]_vars

(***************************************************************************)
(* C35: what an internal transfer moves                                    *)
(***************************************************************************)
\* the drain completes the internal transfer rid in this step
TransferCompletes(rid) ==
    /\ Dispatches(rid)
    /\ InternalTransfer(rid)
    /\ reqs[rid].status = "pending"
    /\ reqs'[rid].status = "completed"

\* the amount moved: the requested amount, at most the value of the source
TransferAmount(rid) ==
    QMin(Get(reqs[rid].details, "amount", QZero),
         get_certificate_total_value(Store, reqs[rid].certificate_id))

\* the total value of certificate c after the step
ValueAfter(c) == get_certificate_total_value([holdings |-> holdings'], c)

SwapLists ==
    { << <<1, QInt(100)>> >>, << <<2, QInt(100)>> >>, Alloc(50, 50), Alloc(60, 30),
      << <<1, <<19999, 200>> >>, <<2, <<1, 200>> >> >>,
      << <<1, QInt(100)>>, <<2, <<1, 100>> >> >> }

SwapInputs ==
    [unit_supply : {QInt(50), QInt(100)}, h1 : PriceUnits1, h2 : {QZero, QInt(10)}, list : SwapLists]
    \cup [unit_supply : DustSupplies, h1 : DustUnits, h2 : DustUnits,
          list : {<< <<1, QInt(100)>> >>, Alloc(50, 50)}]

\* certificate 1 with the unit_supply and the holdings of the input, and one
\* fund swap submitted for it
InitSwap ==
    \E in \in SwapInputs :
      /\ nav = [f \in Funds |-> IF f = 1 THEN QInt(2) ELSE QOne]
      /\ certs = [InitCerts EXCEPT ![1].unit_supply = in.unit_supply]
      /\ lots = <<>>
      /\ holdings = [c \in Certs |-> [f \in Funds |->
                        IF c # 1 THEN QZero ELSE IF f = 1 THEN in.h1 ELSE in.h2]]
      /\ allocs = InitAllocs
      /\ cash = [u \in Users |-> IF u = 1 THEN QInt(300) ELSE QInt(100)]
      /\ withdrawals = <<>>
      /\ workload = "swap"
      /\ reqs = << Request(Template(1, 1, "fund_swap", [new_allocations |-> in.list], FALSE),
                           START_DATE) >>
      /\ config = [iof_declared |-> [u \in Users |-> QZero],
                   portin_gain_pct |-> <<4, 5>>,
                   portin_schedule |-> PORTIN_SCHEDULE,
                   iof_amount_column |-> TRUE]
      /\ simMonth = 0
      /\ simDate = START_DATE
      /\ pc = "idle"
      /\ pending = <<>>
      /\ stepsLeft = 0
      /\ log = <<>>
      /\ ops = 0
      /\ stepsBegun = 0
      /\ probe = [kind |-> "none"]

NextSwap ==
    \/ EvolveTime(1)
    \/ BeginStep
    \/ ProcessNext
    \/ FinishStep

SpecSwap == InitSwap /\ [][NextSwap]_vars

\* the drain completes the fund swap rid in this step
SwapCompletes(rid) ==
    /\ Dispatches(rid)
    /\ reqs[rid].type = "fund_swap"
    /\ reqs[rid].status = "pending"
    /\ reqs'[rid].status = "completed"

\* C36: a completed fund swap leaves the total value of its certificate, and
\* so its unit price, as they were: what is bought under the new allocation
\* is worth what was sold.
C36_SwapKeepsValue ==
    [][\A rid \in DOMAIN reqs :
          SwapCompletes(rid) =>
             /\ ValueAfter(reqs[rid].certificate_id)
                  = get_certificate_total_value(Store, reqs[rid].certificate_id)
             /\ get_certificate_unit_price([certs |-> certs', holdings |-> holdings'],
                                           reqs[rid].certificate_id)
                  = get_certificate_unit_price(Store, reqs[rid].certificate_id)]_vars

\* the units the entry i of the allocation list asks to buy with the value V
SliceUnits(V, list, i) ==
    QDiv(QMul(V, QDiv(list[i][2], QSumSeq(SeqMap(PctOf, list)))), nav[list[i][1]])

\* C36 as the code has it: a completed fund swap buys every entry of the list
\* that comes to more than 1e-9 units of its fund and drops the others, so the
\* total value never rises and falls by at most 1e-9 units of each fund; when
\* every entry comes to more than 1e-9 units the total value and the unit
\* price are unchanged.
C36_SwapKeepsValueButDust ==
    [][\A rid \in DOMAIN reqs :
          SwapCompletes(rid) =>
             LET c == reqs[rid].certificate_id
                 list == reqs[rid].details.new_allocations
                 V == get_certificate_total_value(Store, c)
                 lost == QSub(V, ValueAfter(c))
             IN  /\ QGe(lost, QZero)
                 /\ LeInv(QDiv(lost, QAdd(nav[1], nav[2])), EPS_UNITS)
                 /\ (\A i \in DOMAIN list : GtInv(SliceUnits(V, list, i), EPS_UNITS))
                    => /\ lost = QZero
                       /\ get_certificate_unit_price([certs |-> certs', holdings |-> holdings'], c)
                            = get_certificate_unit_price(Store, c)]_vars

\* a swap to 100% and 0.01% has completed on a certificate worth 110: the
\* holdings are 110 x 100/100.01 and 110 x 0.01/100.01 units at NAV 1
C36_SwappedWithinTolerance ==
    /\ reqs # <<>>
    /\ reqs[1].type = "fund_swap" /\ reqs[1].status = "completed"
    /\ reqs[1].details.new_allocations = << <<1, QInt(100)>>, <<2, <<1, 100>> >> >>
    /\ nav = [f \in Funds |-> QOne]
    /\ holdings[1][1] = <<1100000, 10001>>
    /\ holdings[1][2] = <<110, 10001>>
    /\ get_certificate_total_value(Store, 1) = QInt(110)

(***************************************************************************)
(* C37: the clock and the NAVs                                             *)
(***************************************************************************)
\* C37: in every state evolve_time leaves behind, whether it has returned or
\* has been aborted by an error of a drain, each fund has had as many monthly
\* NAV updates as the month counter has advanced: its NAV is the initial one
\* compounded over the months counted.
C37_ClockAndNavsInStep ==
    pc = "idle" => \A f \in Funds : nav[f] = CompoundedNav(f, simMonth)

(***************************************************************************)
(* C38: the premium of a redeemed certificate                              *)
(***************************************************************************)
RedeemingTypes == {"withdrawal", "transfer_internal", "transfer_external_out"}

\* the drain completes a redemption from certificate c in this step and leaves
\* it without units and without holdings
FullyRedeems(rid, c) ==
    /\ Dispatches(rid)
    /\ reqs[rid].type \in RedeemingTypes
    /\ reqs[rid].certificate_id = c
    /\ reqs[rid].status = "pending"
    /\ reqs'[rid].status = "completed"
    /\ certs'[c].unit_supply = QZero
    /\ \A f \in Funds : holdings'[c][f] = QZero

\* C38: a non-deductible certificate that a withdrawal, an internal transfer
\* or an external transfer-out has left with unit_supply 0 and no holdings has
\* premium_remaining 0, and no step makes a unit_supply or a
\* premium_remaining negative.
C38_RedeemedHasNoPremium ==
    [][/\ \A c \in Certs :
             /\ QGe(certs'[c].unit_supply, QZero)
             /\ QGe(certs'[c].vgbl_premium_remaining, QZero)
       /\ \A rid \in DOMAIN reqs : \A c \in Certs :
             (FullyRedeems(rid, c) /\ certs[c].plan_type = "VGBL")
             => certs'[c].vgbl_premium_remaining = QZero]_vars

====
